---- MODULE Spec2Model ----
(***************************************************************************)
(* LingoLoop: the sentence-synchronised loop-playback engine               *)
(* (components/MediaPlayer.tsx driven by components/PlayerPage.tsx).       *)
(*                                                                         *)
(* Time is counted in integer ticks of content time.  One step of the      *)
(* model is one browser task: an event handler or timer callback together  *)
(* with the React render and effects its state updates cause.  The display *)
(* state of MediaPlayer (internalTime, duration, its own isPlaying) is      *)
(* written by the handlers and read only by the markup; it is left out.    *)
(*                                                                         *)
(* The persistence layer (services/storageService.ts over localStorage,    *)
(* services/mediaStorageService.ts over IndexedDB, called from HomePage    *)
(* and PlayerPage) is modelled in the specifications SpecStorage,          *)
(* SpecMedia, SpecTabs and SpecRoundTrip.  A stored item is the JSON text  *)
(* as a sequence of <<key, value>> pairs per object; an asynchronous       *)
(* function is split at its await.  The player's persistence effect is     *)
(* the action updateProject of those specifications; the specifications    *)
(* of the engine leave the stored state alone.                             *)
(*                                                                         *)
(* The import of a transcript (constants.ts, TextEditor.tsx, the           *)
(* transcription of PlayerPage) is the specification SpecImport, with      *)
(* imported times in milliseconds.  SpecSession is the player of one       *)
(* stored project with its persistence effect as a step of its own that    *)
(* runs before any other handler, and the page opened again from storage.  *)
(***************************************************************************)
EXTENDS Integers, Sequences, FiniteSets, TLC

VARIABLES
    sentences,          \* PlayerPage state: the Segment Store (array order)
    currentSentenceId,  \* PlayerPage state: id of the active segment, NoSentence = null
    settings,           \* PlayerPage state: PlaybackSettings
    isPlaying,          \* PlayerPage state: flag behind the play/pause control
    currentTime,        \* PlayerPage state: position last propagated by onTimeUpdate
    currentLoop,        \* MediaPlayer state: loopsCompleted
    isDelaying,         \* MediaPlayer state: awaitingLoopDelay
    media,              \* the media element: currentTime, paused, playbackRate
    timers,             \* pending setTimeout callbacks, in firing order
    last,               \* history: which handler (and branch) ran in the last step
    clean,              \* history: no user pause, seek, re-selection or change of the
                        \*   loop count since the loop budget of the active segment began
    crossings,          \* history: while clean, end crossings that took the
                        \*   re-loop branch since the loop budget began
    edits,              \* history: inline edits of segment times made so far
    imported,           \* history: the last import, what was read and how it ended
    localStorage,       \* window.localStorage: key -> stored JSON text
    mediaDB,            \* IndexedDB object store 'media': project ids holding a blob
    inflight,           \* binary-store operations started and not yet settled
    now,                \* Date.now()
    outcome,            \* the failures that calls of the last step delivered to their callers
    other,              \* a second open instance of the application (another tab)
    memory,             \* a collection in memory, saved and then loaded again
    mediaSrc,           \* PlayerPage state: the media source, NoSrc = null
    currentProject,     \* App state: the project the player is opened on (the
                        \*   project prop), as far as the handlers read it
    syncDeps            \* the Persistence Sync effect of PlayerPage: whether it ran
                        \*   since the mount, the dependencies it last ran with,
                        \*   whether that run saved the project, and how many of its
                        \*   writes have failed

\* The player (PlayerPage with its MediaPlayer).
playerVars == <<sentences, currentSentenceId, settings, isPlaying, currentTime,
                currentLoop, isDelaying, media, timers, clean, crossings, edits,
                imported>>

engineVars == <<playerVars, last>>

\* The storage layer (localStorage collections, IndexedDB media store).
storageVars == <<localStorage, mediaDB, inflight, now, outcome, other, memory, mediaSrc,
                 syncDeps, currentProject>>

vars == <<engineVars, storageVars>>

----------------------------------------------------------------------------
(* Bounds of the model *)

Duration == 3       \* length of the media, in ticks
MaxStep == 2        \* largest advance of the transport between two events
MaxTimers == 2      \* pending timers kept
MaxLoop == 3        \* cap on loopsCompleted (unbounded budget)
MaxEdits == 1       \* inline edits of segment times in one run
MaxClock == 1       \* last value of Date.now()
MaxInflight == 1    \* binary-store operations in flight at once

----------------------------------------------------------------------------
(* Data *)

\* The two localStorage keys of storageService.ts.
PROJECT_KEY == "lingoloop_data"
GROUP_KEY == "lingoloop_groups"

NoSentence == 0
Infinity == 1000

NullSentence == [id |-> NoSentence, startTime |-> 0, endTime |-> 0]

Sentence(i, s, e) == [id |-> i, startTime |-> s, endTime |-> e]

\* Segment stores the player is opened with.
Stores ==
    { << Sentence(1, 0, 1), Sentence(2, 1, 2) >>,
      << Sentence(1, 0, 2) >>,
      << Sentence(1, 2, 3), Sentence(2, 0, 1) >>,
      << >> }

LoopOptionsModelled == {1, 2, 3, -1}
PlaybackRates == {1, 2}

Min(a, b) == IF a < b THEN a ELSE b

\* Array.prototype.findIndex on the id: 0-based index, -1 when absent.
FindIndex(ss, id) ==
    IF \E i \in 1..Len(ss) : ss[i].id = id
    THEN (CHOOSE i \in 1..Len(ss) :
              ss[i].id = id /\ \A j \in 1..(i - 1) : ss[j].id # id) - 1
    ELSE -1

\* 0-based array access.
At(ss, i) == ss[i + 1]

\* Bug variant: an id that matches no segment falls back to the first segment.
ActiveSentenceOf_FallsBackToFirst(ss, id) ==
    IF FindIndex(ss, id) # -1 THEN At(ss, FindIndex(ss, id))
    ELSE IF ss # << >> /\ id # NoSentence THEN ss[1] ELSE NullSentence

\* const activeSentence = sentences.find(s => s.id === currentSentenceId) || null
ActiveSentenceOf(ss, id) ==
    IF FindIndex(ss, id) >= 0 THEN At(ss, FindIndex(ss, id)) ELSE NullSentence

activeSentence == ActiveSentenceOf(sentences, currentSentenceId)

----------------------------------------------------------------------------
(* The transport (MediaPlayerHandle over the media element) *)

Seek(m, t) == [m EXCEPT !.currentTime = IF t < 0 THEN 0 ELSE Min(t, Duration)]

\* play() on a transport that has ended first seeks to the start.
Play(m) == [m EXCEPT !.paused = FALSE,
                     !.currentTime = IF m.currentTime >= Duration THEN 0
                                     ELSE m.currentTime]

Pause(m) == [m EXCEPT !.paused = TRUE]

----------------------------------------------------------------------------
(* MediaPlayer: pieces of handleTimeUpdate and of the reset effect *)

\* Bug variant: the sentinel -1 is used as a count.
MaxLoops_SentinelAsCount(st) == st.loopCountOption

\* const maxLoops = loopCountOption === -1 ? Infinity : loopCountOption
MaxLoops(st) == IF st.loopCountOption = -1 THEN Infinity ELSE st.loopCountOption

\* Bug variant: the delay flag is not consulted.
LoopingLogicEnabled_NoDelayGuard(cs, delaying) == cs.id # NoSentence

\* if (currentSentence && !isDelaying)
LoopingLogicEnabled(cs, delaying) == cs.id # NoSentence /\ ~delaying

\* Bug variant: the position is compared with the start of the segment.
ReachedEnd_AgainstStart(t, cs) == t >= cs.startTime

\* if (currentTime >= currentSentence.endTime)
ReachedEnd(t, cs) == t >= cs.endTime

\* if (currentLoop < maxLoops - 1)
LoopAgain(loop, st) == loop < MaxLoops(st) - 1

\* const hasNextSentence = typeof hasNext !== 'undefined' ? hasNext : true
\* (MediaPlayer has no binding named hasNext)
hasNextSentence == TRUE

\* Bug variant: the stop branch pauses without seeking back.
StopTransport_NoSeek(m, cs) == Pause(m)

\* Stop branch: media.pause(); media.currentTime = currentSentence.startTime
StopTransport(m, cs) == Seek(Pause(m), cs.startTime)

\* Bug variant: the reset effect never moves the transport.
ReclampOnChange_Never(m, cs, st) == m

\* The effect on [currentSentence]: after the two state resets, a playing
\* transport outside the new segment is moved to its start when autoPlayNext.
ReclampOnChange(m, cs, st) ==
    IF cs.id # NoSentence /\ st.autoPlayNext /\ ~m.paused
       /\ (m.currentTime < cs.startTime \/ m.currentTime > cs.endTime)
    THEN Seek(m, cs.startTime)
    ELSE m

----------------------------------------------------------------------------
(* Initial state: PlayerPage and MediaPlayer just mounted on a loaded medium *)

\* const [mediaSrc, setMediaSrc] = useState<string | null>(null)
NoSrc == 0

\* URL.createObjectURL(file): a blob URL (it does not tell which file)
BlobUrl == 1

\* The project the player is opened on, before any media is attached: rev
\* stands for the fields the handlers of the player do not read.
OpenedProject == [id |-> 1, rev |-> 0]

\* The Persistence Sync effect has not run since PlayerPage was mounted.
NoSync == [ran |-> FALSE, sentences |-> << >>, currentSentenceId |-> NoSentence,
           currentTime |-> 0, saved |-> FALSE, failures |-> 0]

\* A failure delivered by a call to its caller: op is the function that
\* failed, how is "threw" (synchronous) or "rejected" (its promise).
Failed(op, how) == [op |-> op, how |-> how]

\* A fresh browser profile: no key in localStorage, an empty media store.
StorageInit ==
    /\ localStorage = << >>
    /\ mediaDB = {}
    /\ inflight = << >>
    /\ now = 0
    /\ outcome = {}
    /\ other = [pc |-> "idle", op |-> [kind |-> "none", id |-> 0, arg |-> 0],
                base |-> << >>]
    /\ mediaSrc = NoSrc
    /\ syncDeps = NoSync
    /\ currentProject = OpenedProject

\* No collection is being saved.
NoMemory == [phase |-> "none", key |-> PROJECT_KEY, coll |-> << >>, loaded |-> << >>]

\* Nothing has been imported in this session.
NoImport == [path |-> "none", isSrt |-> FALSE, body |-> << >>, done |-> "kept",
             alerted |-> FALSE, n |-> 0]

SettingsSet ==
    [loopCountOption : LoopOptionsModelled, autoPlayNext : BOOLEAN,
     playbackRate : PlaybackRates]

PlayerInit ==
    /\ sentences \in Stores
    /\ currentSentenceId \in {NoSentence} \cup {sentences[i].id : i \in 1..Len(sentences)}
    /\ settings \in SettingsSet
    /\ isPlaying = FALSE
    /\ currentTime = 0
    /\ currentLoop = 0
    /\ isDelaying = FALSE
    /\ media = [currentTime |-> 0, paused |-> TRUE, playbackRate |-> settings.playbackRate]
    /\ timers = << >>
    /\ last = "init"
    /\ clean = TRUE
    /\ crossings = 0
    /\ edits = 0
    /\ imported = NoImport

Init ==
    /\ PlayerInit
    /\ StorageInit
    /\ memory = NoMemory

----------------------------------------------------------------------------
(* PlayerPage handlers *)

\* The part of the state a selection writes.
Engine == [currentSentenceId |-> currentSentenceId, isPlaying |-> isPlaying,
           currentLoop |-> currentLoop, isDelaying |-> isDelaying, media |-> media]

\* Bug variant: the reset effect leaves the delay flag alone.
ResetOnSentenceChange_KeepsDelay(e, cs) ==
    [e EXCEPT !.currentLoop = 0,
              !.media = ReclampOnChange(e.media, cs, settings)]

\* The reset effect of MediaPlayer, run by React when the currentSentence prop
\* (the object found for currentSentenceId) changes: setCurrentLoop(0),
\* setIsDelaying(false), then the re-clamp.  Pending timeouts are untouched.
ResetOnSentenceChange(e, cs) ==
    [e EXCEPT !.currentLoop = 0,
              !.isDelaying = FALSE,
              !.media = ReclampOnChange(e.media, cs, settings)]

\* Bug variant: the click seeks but does not start playback.
ClickResult_NoPlay(s) ==
    LET e1 == [Engine EXCEPT !.currentSentenceId = s.id,
                             !.media = Seek(media, s.startTime),
                             !.isPlaying = TRUE]
    IN  IF s.id # activeSentence.id THEN ResetOnSentenceChange(e1, s) ELSE e1

\* handleSentenceClick(s) and the render it causes.
ClickResult(s) ==
    LET e1 == [Engine EXCEPT !.currentSentenceId = s.id,
                             !.media = Play(Seek(media, s.startTime)),
                             !.isPlaying = TRUE]
    IN  IF s.id # activeSentence.id THEN ResetOnSentenceChange(e1, s) ELSE e1

\* handlePrev: if (idx > 0) handleSentenceClick(sentences[idx - 1])
PrevResult ==
    LET idx == FindIndex(sentences, currentSentenceId)
    IN  IF idx > 0 THEN ClickResult(At(sentences, idx - 1)) ELSE Engine

\* Bug variant: Next on the last segment wraps around to the first one.
NextResult_Wraps ==
    LET idx == FindIndex(sentences, currentSentenceId)
    IN  IF idx < Len(sentences) - 1 THEN ClickResult(At(sentences, idx + 1))
        ELSE IF sentences # << >> THEN ClickResult(sentences[1]) ELSE Engine

\* handleNext: if (idx < sentences.length - 1) handleSentenceClick(sentences[idx + 1])
NextResult ==
    LET idx == FindIndex(sentences, currentSentenceId)
    IN  IF idx < Len(sentences) - 1 THEN ClickResult(At(sentences, idx + 1)) ELSE Engine

\* A user action that may select a segment: e is what it wrote.
Selection(e, tag) ==
    LET changed == e.currentSentenceId # currentSentenceId
    IN  /\ currentSentenceId' = e.currentSentenceId
        /\ isPlaying' = e.isPlaying
        /\ currentLoop' = e.currentLoop
        /\ isDelaying' = e.isDelaying
        /\ media' = e.media
        /\ clean' = IF e = Engine THEN clean ELSE changed
        /\ crossings' = IF e = Engine THEN crossings ELSE 0
        /\ last' = IF e = Engine THEN "user" ELSE IF changed THEN tag ELSE "reselect"
        /\ UNCHANGED <<sentences, settings, currentTime, timers, edits, imported, storageVars>>

\* A click in the text list (onSentenceClick) or on a sidebar index (onJumpTo).
handleSentenceClick ==
    \E i \in 1..Len(sentences) : Selection(ClickResult(sentences[i]), "select")

handlePrev == Selection(PrevResult, "select")

handleNext == Selection(NextResult, "select")

togglePlay ==
    /\ media' = IF isPlaying THEN Pause(media) ELSE Play(media)
    /\ isPlaying' = ~isPlaying
    /\ clean' = FALSE
    /\ crossings' = 0
    /\ last' = "user"
    /\ UNCHANGED <<sentences, currentSentenceId, settings, currentTime,
                   currentLoop, isDelaying, timers, edits, imported, storageVars>>

\* The Loops select.
setLoopCountOption ==
    \E n \in LoopOptionsModelled \ {settings.loopCountOption} :
        /\ settings' = [settings EXCEPT !.loopCountOption = n]
        /\ clean' = FALSE
        /\ crossings' = 0
        /\ last' = "user"
        /\ UNCHANGED <<sentences, currentSentenceId, isPlaying, currentTime, currentLoop,
                       isDelaying, media, timers, edits, imported, storageVars>>

\* The Auto Play checkbox.
setAutoPlayNext ==
    /\ settings' = [settings EXCEPT !.autoPlayNext = ~settings.autoPlayNext]
    /\ last' = "user"
    /\ UNCHANGED <<sentences, currentSentenceId, isPlaying, currentTime, currentLoop,
                   isDelaying, media, timers, clean, crossings, edits, imported, storageVars>>

\* Bug variant: the rate change also restarts the loop budget.
setPlaybackRate_RestartsBudget ==
    \E r \in PlaybackRates \ {settings.playbackRate} :
        /\ settings' = [settings EXCEPT !.playbackRate = r]
        /\ media' = [media EXCEPT !.playbackRate = r]
        /\ currentLoop' = 0
        /\ last' = "user"
        /\ UNCHANGED <<sentences, currentSentenceId, isPlaying, currentTime,
                       isDelaying, timers, clean, crossings, edits, imported, storageVars>>

\* The Speed select, with the playback-rate effect of MediaPlayer.
setPlaybackRate ==
    \E r \in PlaybackRates \ {settings.playbackRate} :
        /\ settings' = [settings EXCEPT !.playbackRate = r]
        /\ media' = [media EXCEPT !.playbackRate = r]
        /\ last' = "user"
        /\ UNCHANGED <<sentences, currentSentenceId, isPlaying, currentTime, currentLoop,
                       isDelaying, timers, clean, crossings, edits, imported, storageVars>>

----------------------------------------------------------------------------
(* MediaPlayer handlers *)

\* handleSeek: the timeline slider.
handleSeek ==
    \E t \in 0..Duration :
        /\ media' = Seek(media, t)
        /\ clean' = FALSE
        /\ crossings' = 0
        /\ last' = "user"
        /\ UNCHANGED <<sentences, currentSentenceId, settings, isPlaying, currentTime,
                       currentLoop, isDelaying, timers, edits, imported, storageVars>>

\* The transport plays: content time advances; at the end of the medium the
\* element pauses itself and fires 'ended' (onEnded = setIsPlaying(false)).
MediaAdvance ==
    /\ ~media.paused
    /\ media.currentTime < Duration
    /\ \E d \in 1..MaxStep :
        LET t == Min(media.currentTime + d, Duration)
        IN  /\ media' = [media EXCEPT !.currentTime = t, !.paused = (t = Duration)]
            /\ isPlaying' = IF t = Duration THEN FALSE ELSE isPlaying
    /\ last' = "user"
    /\ UNCHANGED <<sentences, currentSentenceId, settings, currentTime, currentLoop,
                   isDelaying, timers, clean, crossings, edits, imported, storageVars>>

\* Bug variant: the position is propagated before the missing sentence is noticed.
TimeUpdateNoSentence_Propagates ==
    /\ activeSentence.id = NoSentence
    /\ media' = Pause(media)
    /\ currentTime' = media.currentTime
    /\ last' = "noSentence"
    /\ UNCHANGED <<sentences, currentSentenceId, settings, isPlaying,
                   currentLoop, isDelaying, timers, clean, crossings, edits, imported, storageVars>>

\* handleTimeUpdate, first branch: if (!currentSentence) { media.pause(); return; }
TimeUpdateNoSentence ==
    /\ activeSentence.id = NoSentence
    /\ media' = Pause(media)
    /\ last' = "noSentence"
    /\ UNCHANGED <<sentences, currentSentenceId, settings, isPlaying, currentTime,
                   currentLoop, isDelaying, timers, clean, crossings, edits, imported, storageVars>>

\* handleTimeUpdate: the position is propagated and the looping logic does
\* nothing (delaying, or the position is before the segment's end).
TimeUpdatePropagate ==
    /\ activeSentence.id # NoSentence
    /\ ~(LoopingLogicEnabled(activeSentence, isDelaying)
         /\ ReachedEnd(media.currentTime, activeSentence))
    /\ currentTime' = media.currentTime
    /\ last' = IF isDelaying THEN "delaying" ELSE "below"
    /\ UNCHANGED <<sentences, currentSentenceId, settings, isPlaying, currentLoop,
                   isDelaying, media, timers, clean, crossings, edits, imported, storageVars>>

\* handleTimeUpdate: the end is reached with loops left: pause, setIsDelaying,
\* setTimeout.  The callback closes over this render's currentSentence.
TimeUpdateLoop ==
    /\ activeSentence.id # NoSentence
    /\ LoopingLogicEnabled(activeSentence, isDelaying)
    /\ ReachedEnd(media.currentTime, activeSentence)
    /\ LoopAgain(currentLoop, settings)
    /\ Len(timers) < MaxTimers
    /\ currentLoop + Len(timers) < MaxLoop
    /\ currentTime' = media.currentTime
    /\ media' = Pause(media)
    /\ isDelaying' = TRUE
    /\ timers' = Append(timers, activeSentence)
    /\ crossings' = IF clean THEN crossings + 1 ELSE 0
    /\ last' = "loop"
    /\ UNCHANGED <<sentences, currentSentenceId, settings, isPlaying, currentLoop, clean, edits, imported, storageVars>>

\* handleTimeUpdate: the end is reached with the budget exhausted, advance
\* branch: onAutoPlayNext() (handleNext of PlayerPage), then setCurrentLoop(0).
TimeUpdateAdvance ==
    /\ activeSentence.id # NoSentence
    /\ LoopingLogicEnabled(activeSentence, isDelaying)
    /\ ReachedEnd(media.currentTime, activeSentence)
    /\ ~LoopAgain(currentLoop, settings)
    /\ settings.autoPlayNext /\ hasNextSentence
    /\ currentTime' = media.currentTime
    /\ LET e == NextResult
       IN  /\ currentSentenceId' = e.currentSentenceId
           /\ isPlaying' = e.isPlaying
           /\ isDelaying' = e.isDelaying
           /\ media' = e.media
    /\ currentLoop' = 0
    /\ clean' = TRUE
    /\ crossings' = 0
    /\ last' = "advance"
    /\ UNCHANGED <<sentences, settings, timers, edits, imported, storageVars>>

\* handleTimeUpdate: the end is reached with the budget exhausted, stop branch.
TimeUpdateStop ==
    /\ activeSentence.id # NoSentence
    /\ LoopingLogicEnabled(activeSentence, isDelaying)
    /\ ReachedEnd(media.currentTime, activeSentence)
    /\ ~LoopAgain(currentLoop, settings)
    /\ ~(settings.autoPlayNext /\ hasNextSentence)
    /\ currentTime' = media.currentTime
    /\ media' = StopTransport(media, activeSentence)
    /\ currentLoop' = 0
    /\ clean' = TRUE
    /\ crossings' = 0
    /\ last' = "stop"
    /\ UNCHANGED <<sentences, currentSentenceId, settings, isPlaying, isDelaying, timers, edits, imported, storageVars>>

\* A 'timeupdate' event of the media element.
handleTimeUpdate ==
    \/ TimeUpdateNoSentence
    \/ TimeUpdatePropagate
    \/ TimeUpdateLoop
    \/ TimeUpdateAdvance
    \/ TimeUpdateStop

\* Bug variant: the callback forgets setIsDelaying(false).
TimerFire_KeepsDelay ==
    /\ timers # << >>
    /\ media' = Play(Seek(media, Head(timers).startTime))
    /\ currentLoop' = currentLoop + 1
    /\ timers' = Tail(timers)
    /\ last' = "timer"
    /\ UNCHANGED <<sentences, currentSentenceId, settings, isPlaying, currentTime,
                   isDelaying, clean, crossings, edits, imported, storageVars>>

\* The setTimeout callback of the loop delay.  Nothing ever clears a timeout,
\* so every scheduled callback runs, with the sentence it closed over.
TimerFire ==
    /\ timers # << >>
    /\ media' = Play(Seek(media, Head(timers).startTime))
    /\ currentLoop' = currentLoop + 1
    /\ isDelaying' = FALSE
    /\ timers' = Tail(timers)
    /\ last' = "timer"
    /\ UNCHANGED <<sentences, currentSentenceId, settings, isPlaying, currentTime,
                   clean, crossings, edits, imported, storageVars>>

----------------------------------------------------------------------------

Next ==
    \/ handleSentenceClick
    \/ handlePrev
    \/ handleNext
    \/ togglePlay
    \/ setLoopCountOption
    \/ setAutoPlayNext
    \/ setPlaybackRate
    \/ handleSeek
    \/ MediaAdvance
    \/ handleTimeUpdate
    \/ TimerFire

Spec == Init /\ [][Next]_vars

----------------------------------------------------------------------------
(* The player with the inline time editor of TextEditor *)

\* onUpdateSentence: setSentences(prev.map(s => s.id === updatedS.id ? updatedS : s))
ReplaceSentence(ss, updatedS) ==
    [i \in DOMAIN ss |-> IF ss[i].id = updatedS.id THEN updatedS ELSE ss[i]]

\* The start or end input of the active segment's inline editor changes:
\* onUpdateSentence({...s, startTime}) or ({...s, endTime}), no validation.
\* The new object is a new currentSentence prop, so the reset effect runs.
updateSentence ==
    /\ activeSentence.id # NoSentence
    /\ edits < MaxEdits
    /\ \E f \in {"startTime", "endTime"}, t \in 0..Duration :
        /\ activeSentence[f] # t
        /\ LET updatedS == [activeSentence EXCEPT ![f] = t]
               e == ResetOnSentenceChange(Engine, updatedS)
           IN  /\ sentences' = ReplaceSentence(sentences, updatedS)
               /\ currentLoop' = e.currentLoop
               /\ isDelaying' = e.isDelaying
               /\ media' = e.media
               /\ last' = IF e.media # media THEN "reclamp" ELSE "edit"
    /\ edits' = edits + 1
    /\ clean' = FALSE
    /\ crossings' = 0
    /\ UNCHANGED <<currentSentenceId, settings, isPlaying, currentTime, timers, imported, storageVars>>

\* The player opened on two adjacent segments, default speed, two loops.
InitEdit ==
    /\ Init
    /\ sentences = << Sentence(1, 0, 1), Sentence(2, 1, 2) >>
    /\ settings.playbackRate = 1
    /\ settings.loopCountOption = 2

NextEdit ==
    \/ updateSentence
    \/ handleSentenceClick
    \/ togglePlay
    \/ setAutoPlayNext
    \/ handleSeek
    \/ MediaAdvance
    \/ handleTimeUpdate
    \/ TimerFire

SpecEdit == InitEdit /\ [][NextEdit]_vars

----------------------------------------------------------------------------
(* Import of a transcript: constants.ts (parseTxtContent, parseSrtTime,       *)
(* generateId), TextEditor.processContent, PlayerPage.handleTranscribe.       *)
(* Imported times are counted in milliseconds.                                *)

MaxLines == 3       \* lines of a text file, blocks of a subtitle file
MaxImports == 1     \* imports in one run
MaxFailures == 1    \* writes of the sync effect that fail in one run

\* A decimal number as written in a bracket: digits, and up to three digits
\* after the point.
Written(whole, thousandths) == [whole |-> whole, thousandths |-> thousandths]

\* parseFloat of a written number.
parseFloat(w) == w.whole * 1000 + w.thousandths

\* A subtitle time stamp as written: hh:mm:ss,mmm
Stamp(h, m, s, ms) == [h |-> h, m |-> m, s |-> s, ms |-> ms]

\* parseSrtTime: h * 3600 + m * 60 + s + parseInt(ms) / 1000
parseSrtTime(ts) == ts.h * 3600000 + ts.m * 60000 + ts.s * 1000 + ts.ms

\* Number(x.toFixed(2)): x rounded to hundredths of a second.
ToFixed2(t) == ((t + 5) \div 10) * 10

Max(a, b) == IF a > b THEN a ELSE b

\* The lines of a text file, after trim(): a blank line, a line of text (its
\* text and length), a line that matches markerRegex (the two written numbers
\* and the rest of the line).
BlankLine == [kind |-> "blank", text |-> "", len |-> 0,
              start |-> Written(0, 0), end |-> Written(0, 0)]

TextLine(text, len) == [kind |-> "text", text |-> text, len |-> len,
                        start |-> Written(0, 0), end |-> Written(0, 0)]

MarkerLine(start, end, text) == [kind |-> "marker", text |-> text, len |-> 1,
                                 start |-> start, end |-> end]

Lines ==
    { BlankLine,
      TextLine("a", 5), TextLine("b", 40), TextLine("c", 150),
      MarkerLine(Written(0, 0), Written(1, 500), "d"),
      MarkerLine(Written(3, 0), Written(1, 0), "e"),
      MarkerLine(Written(2, 0), Written(2, 0), "f"),
      MarkerLine(Written(0, 500), Written(3, 204), "g") }

\* The blocks of a subtitle file: a block the regex of processContent matches
\* (index, two stamps, text), or one it does not match.
Cue(start, end, text) == [kind |-> "cue", text |-> text, start |-> start, end |-> end]

NoCue == [kind |-> "other", text |-> "", start |-> Stamp(0, 0, 0, 0),
          end |-> Stamp(0, 0, 0, 0)]

Blocks ==
    { NoCue,
      Cue(Stamp(0, 0, 0, 0), Stamp(0, 0, 1, 500), "a"),
      Cue(Stamp(0, 1, 0, 0), Stamp(0, 0, 59, 0), "b"),
      Cue(Stamp(1, 0, 0, 250), Stamp(1, 0, 0, 250), "c") }

\* Sequences of at most n elements of a set.
SeqsUpTo(S, n) == UNION {[1..k -> S] : k \in 0..n}

\* The i-th call of generateId() in an import: Math.random().toString(36),
\* taken to differ from every id in use (ids above IdBase when the store has
\* none there, ids below it otherwise).
IdBase == 10

generateId(old, i) ==
    IF \E k \in DOMAIN old : old[k].id > IdBase THEN i ELSE IdBase + i

\* A segment made by an import.
Imported(id, s, e, text) == [id |-> id, startTime |-> s, endTime |-> e, text |-> text]

\* content.split('\n').filter(l => l.trim().length > 0)
RECURSIVE NonBlank(_)
NonBlank(lines) ==
    IF lines = << >> THEN << >>
    ELSE IF Head(lines).len > 0 THEN <<Head(lines)>> \o NonBlank(Tail(lines))
    ELSE NonBlank(Tail(lines))

\* Bug variant: the synthesized duration has no lower clamp.
HeuristicDuration_NoFloor(len) == Min(10000, len * 100)

\* Math.max(2, Math.min(10, trimmed.length * 0.1))
HeuristicDuration(len) == Max(2000, Min(10000, len * 100))

\* One pass of lines.forEach: the segment pushed for a line when the running
\* currentTime is t.
SegmentOfLine(line, t, id) ==
    IF line.kind = "marker"
    THEN Imported(id, parseFloat(line.start), parseFloat(line.end), line.text)
    ELSE Imported(id, ToFixed2(t), ToFixed2(t + HeuristicDuration(line.len)), line.text)

\* lines.forEach(...) from the i-th pushed segment on; currentTime = end after each.
RECURSIVE ParseLines(_, _, _, _)
ParseLines(lines, t, old, i) ==
    IF lines = << >> THEN << >>
    ELSE LET seg == SegmentOfLine(Head(lines), t, generateId(old, i))
         IN  <<seg>> \o ParseLines(Tail(lines), seg.endTime, old, i + 1)

\* parseTxtContent(content), the store in use being old.
parseTxtContent(content, old) == ParseLines(NonBlank(content), 0, old, 1)

\* The while loop over regex.exec(content): one segment per matching block.
RECURSIVE ParseSrt(_, _, _)
ParseSrt(blocks, old, i) ==
    IF blocks = << >> THEN << >>
    ELSE IF Head(blocks).kind = "cue"
    THEN <<Imported(generateId(old, i), parseSrtTime(Head(blocks).start),
                    parseSrtTime(Head(blocks).end), Head(blocks).text)>>
         \o ParseSrt(Tail(blocks), old, i + 1)
    ELSE ParseSrt(Tail(blocks), old, i)

\* newSentences of processContent(content, isSrt)
NewSentences(body, isSrt, old) ==
    IF isSrt THEN ParseSrt(body, old, 1) ELSE parseTxtContent(body, old)

\* What can be read from a file or a URL: a text file or a subtitle file.
Contents ==
    [isSrt : {FALSE}, body : SeqsUpTo(Lines, MaxLines)]
    \cup [isSrt : {TRUE}, body : SeqsUpTo(Blocks, MaxLines)]

\* Bug variant: the imported segments are added to the ones in the store.
onImportText_Merges(prev, newSentences) == prev \o newSentences

\* onImportText={(newSentences) => setSentences(newSentences)}: the next
\* value of the sentences state.
onImportText(prev, newSentences) == newSentences

\* setSentences(newSentences) and the render it causes: currentSentenceId is
\* kept, the currentSentence prop is looked up again, and the reset effect of
\* MediaPlayer runs when it is another object than before.
SetSentences(newSentences) ==
    LET cs == ActiveSentenceOf(newSentences, currentSentenceId)
        e == IF cs # activeSentence THEN ResetOnSentenceChange(Engine, cs) ELSE Engine
    IN  /\ sentences' = newSentences
        /\ currentLoop' = e.currentLoop
        /\ isDelaying' = e.isDelaying
        /\ media' = e.media
        /\ clean' = FALSE
        /\ crossings' = 0

\* processContent(content, isSrt): parse, then onImportText(newSentences).
processContent(c, path) ==
    /\ SetSentences(onImportText(sentences, NewSentences(c.body, c.isSrt, sentences)))
    /\ imported' = [path |-> path, isSrt |-> c.isSrt, body |-> c.body,
                    done |-> "replaced", alerted |-> FALSE, n |-> imported.n + 1]

\* TextEditor.handleFileUpload: reader.onload of a file chosen among C.
FileUpload(C) ==
    /\ imported.n < MaxImports
    /\ \E c \in C : processContent(c, "file")
    /\ last' = "import"
    /\ UNCHANGED <<currentSentenceId, settings, isPlaying, currentTime, timers, edits,
                   storageVars>>

handleFileUpload == FileUpload(Contents)

\* TextEditor.handleUrlSubmit after its awaits: the text fetched is processed,
\* or fetch / res.text() was rejected and the catch alerts.
handleUrlSubmit ==
    /\ imported.n < MaxImports
    /\ \/ \E c \in Contents : processContent(c, "url")
       \/ /\ imported' = [path |-> "url", isSrt |-> FALSE, body |-> << >>,
                          done |-> "kept", alerted |-> TRUE, n |-> imported.n + 1]
          /\ UNCHANGED <<sentences, currentLoop, isDelaying, media, clean, crossings>>
    /\ last' = "import"
    /\ UNCHANGED <<currentSentenceId, settings, isPlaying, currentTime, timers, edits,
                   storageVars>>

\* PlayerPage.handleTranscribe after its await, a local file being attached:
\* the subtitle text returned is parsed; setSentences if it has a segment,
\* else an alert; an alert too when transcribeMedia was rejected.
handleTranscribe ==
    /\ imported.n < MaxImports
    /\ \/ \E body \in SeqsUpTo(Blocks, MaxLines) :
            LET newSentences == ParseSrt(body, sentences, 1)
            IN  IF newSentences # << >>
                THEN /\ SetSentences(newSentences)
                     /\ imported' = [path |-> "ai", isSrt |-> TRUE, body |-> body,
                                     done |-> "replaced", alerted |-> FALSE, n |-> imported.n + 1]
                ELSE /\ imported' = [path |-> "ai", isSrt |-> TRUE, body |-> body,
                                     done |-> "kept", alerted |-> TRUE, n |-> imported.n + 1]
                     /\ UNCHANGED <<sentences, currentLoop, isDelaying, media,
                                    clean, crossings>>
       \/ /\ imported' = [path |-> "ai", isSrt |-> TRUE, body |-> << >>,
                          done |-> "kept", alerted |-> TRUE, n |-> imported.n + 1]
          /\ UNCHANGED <<sentences, currentLoop, isDelaying, media, clean, crossings>>
    /\ last' = "import"
    /\ UNCHANGED <<currentSentenceId, settings, isPlaying, currentTime, timers, edits,
                   storageVars>>

\* The player at default settings.
InitImport ==
    /\ Init
    /\ settings = [loopCountOption |-> 1, autoPlayNext |-> TRUE, playbackRate |-> 1]

NextImport ==
    \/ handleFileUpload
    \/ handleUrlSubmit
    \/ handleTranscribe
    \/ handleSentenceClick

SpecImport == InitImport /\ [][NextImport]_vars

----------------------------------------------------------------------------
(* The storage layer: services/storageService.ts over localStorage *)

\* The JavaScript value undefined.  Ids, times and revisions are >= 0, an
\* index is >= -1.
Undefined == -2

ProjectIds == {1, 2}
GroupIds == {1, 2}

\* rev stands for the fields of a Project that the player edits (sentences,
\* lastActiveIndex, splitRatio, fontSize, currentTime, media fields).
Revs == {0, 1}

\* Property order of the objects the program builds.
KeyOrder == <<"id", "groupId", "name", "lastAccessedAt", "rev", "sentences",
              "lastActiveIndex", "currentTime", "mediaType", "mediaName", "mediaUrl">>

\* Property order of a Sentence.
SentenceKeyOrder == <<"id", "text", "startTime", "endTime">>

\* o[k] in JavaScript: a missing property reads as undefined.
Get(o, k) == IF k \in DOMAIN o THEN o[k] ELSE Undefined

\* { ...o, k: v }
With(o, k, v) == [x \in DOMAIN o \cup {k} |-> IF x = k THEN v ELSE o[x]]

\* JSON.stringify of the sentences array of a Project (every property of a
\* Sentence is a finite number or a string).
StringifySentences(ss) ==
    [i \in DOMAIN ss |->
        LET present == SelectSeq(SentenceKeyOrder, LAMBDA k : k \in DOMAIN ss[i])
        IN  [j \in 1..Len(present) |-> <<present[j], ss[i][present[j]]>>]]

\* JSON.stringify of an object: its own properties in order as key/value
\* pairs; a property whose value is undefined is left out.
StringifyObject(o) ==
    LET present == SelectSeq(KeyOrder,
                       LAMBDA k : k \in DOMAIN o /\ (k = "sentences" \/ o[k] # Undefined))
    IN  [i \in 1..Len(present) |->
            <<present[i], IF present[i] = "sentences" THEN StringifySentences(o.sentences)
                          ELSE o[present[i]]>>]

\* Bug variant: a property whose value is undefined is written as null.
JSONstringify_UndefinedAsNull(arr) ==
    [i \in DOMAIN arr |->
        LET present == SelectSeq(KeyOrder, LAMBDA k : k \in DOMAIN arr[i])
        IN  [j \in 1..Len(present) |->
                <<present[j], IF arr[i][present[j]] = Undefined THEN Undefined - 1
                              ELSE arr[i][present[j]]>>]]

\* JSON.stringify of an array of objects.
JSONstringify(arr) == [i \in DOMAIN arr |-> StringifyObject(arr[i])]

\* JSON.parse of an object of numbers and strings: one property for each pair.
ParseFlat(pairs) ==
    [k \in {pairs[i][1] : i \in DOMAIN pairs} |->
        pairs[CHOOSE i \in DOMAIN pairs : pairs[i][1] = k][2]]

\* JSON.parse of an object: one property for each pair, the sentences parsed
\* as an array of objects.
ParseObject(pairs) ==
    [k \in {pairs[i][1] : i \in DOMAIN pairs} |->
        LET v == pairs[CHOOSE i \in DOMAIN pairs : pairs[i][1] = k][2]
        IN  IF k = "sentences" THEN [j \in DOMAIN v |-> ParseFlat(v[j])] ELSE v]

\* JSON.parse of an array of objects.
JSONparse(text) == [i \in DOMAIN text |-> ParseObject(text[i])]

\* localStorage.setItem(k, text)
SetItem(ls, k, text) == With(ls, k, text)

\* const data = localStorage.getItem(KEY); return data ? JSON.parse(data) : []
getProjects(ls) == IF PROJECT_KEY \in DOMAIN ls THEN JSONparse(ls[PROJECT_KEY]) ELSE << >>

\* try { setItem } catch { console.error }: a failed write (ok = FALSE) is swallowed.
saveProjects(ls, projects, ok) ==
    IF ok THEN SetItem(ls, PROJECT_KEY, JSONstringify(projects)) ELSE ls

getGroups(ls) == IF GROUP_KEY \in DOMAIN ls THEN JSONparse(ls[GROUP_KEY]) ELSE << >>

\* saveGroups has no try: this is its result when the write succeeds.
saveGroups(ls, groups) == SetItem(ls, GROUP_KEY, JSONstringify(groups))

createProject(id, groupId, t) ==
    [id |-> id, groupId |-> groupId, lastAccessedAt |-> t, rev |-> 0]

\* Bug variant: the update replaces the whole collection by the one record.
UpdateIn_DropsOthers(projects, project, t) ==
    << With(project, "lastAccessedAt", t) >>

\* Bug variant: the update keeps the caller's lastAccessedAt.
UpdateIn_NoStamp(projects, project, t) ==
    LET index == FindIndex(projects, project.id)
    IN  [projects EXCEPT ![index + 1] = project]

\* projects[index] = { ...project, lastAccessedAt: Date.now() }
UpdateIn(projects, project, t) ==
    LET index == FindIndex(projects, project.id)
    IN  [projects EXCEPT ![index + 1] = With(project, "lastAccessedAt", t)]

\* Bug variant: a project that is not in the collection is added to it.
updateProjectInStorage_Upserts(ls, project, t, ok) ==
    LET projects == getProjects(ls)
    IN  IF FindIndex(projects, project.id) # -1
        THEN saveProjects(ls, UpdateIn(projects, project, t), ok)
        ELSE saveProjects(ls, Append(projects, With(project, "lastAccessedAt", t)), ok)

updateProjectInStorage(ls, project, t, ok) ==
    LET projects == getProjects(ls)
    IN  IF FindIndex(projects, project.id) # -1
        THEN saveProjects(ls, UpdateIn(projects, project, t), ok)
        ELSE ls

\* projects.filter(p => p.id !== projectId)
WithoutId(coll, id) == SelectSeq(coll, LAMBDA x : x.id # id)

\* Bug variant: the reassignment drops the projects of the group.
Reassign_DeletesProjects(projects, groupId) ==
    SelectSeq(projects, LAMBDA x : Get(x, "groupId") # groupId)

\* projects.map(p => p.groupId === groupId ? { ...p, groupId: undefined } : p)
Reassign(projects, groupId) ==
    [i \in DOMAIN projects |->
        IF Get(projects[i], "groupId") = groupId
        THEN With(projects[i], "groupId", Undefined)
        ELSE projects[i]]

\* projects[idx].groupId = groupId (undefined means root)
MoveIn(projects, projectId, groupId) ==
    LET idx == FindIndex(projects, projectId)
    IN  [projects EXCEPT ![idx + 1] = With(projects[idx + 1], "groupId", groupId)]

moveProjectToGroup(ls, projectId, groupId, ok) ==
    LET projects == getProjects(ls)
    IN  IF FindIndex(projects, projectId) # -1
        THEN saveProjects(ls, MoveIn(projects, projectId, groupId), ok)
        ELSE ls

\* The ids of a collection.
IdsOf(coll) == {coll[i].id : i \in DOMAIN coll}

\* The record with this id in a collection that holds it.
RecordOf(coll, id) == coll[CHOOSE i \in DOMAIN coll : coll[i].id = id]

----------------------------------------------------------------------------
(* The application over the storage layer: HomePage, the sync effect of     *)
(* PlayerPage, and the IndexedDB media store of mediaStorageService.ts      *)

\* localStorage.setItem threw in this step (quota, storage disabled).
SetItemThrew(ok) == IF ok THEN {} ELSE {Failed("setItem", "threw")}

\* What PlayerPage passes to updateProjectInStorage: the project it was
\* opened with (a stored record, or one deleted since), with its edits.
PlayerProjects(ls) ==
    LET projects == getProjects(ls)
    IN  {With(projects[i], "rev", r) : i \in DOMAIN projects, r \in Revs}
        \cup {[id |-> j, lastAccessedAt |-> 0, rev |-> r] :
                 j \in ProjectIds \ IdsOf(projects), r \in Revs}

\* Persistence Sync effect of PlayerPage: updateProjectInStorage(updatedProject)
updateProject ==
    \E project \in PlayerProjects(localStorage), ok \in BOOLEAN :
        LET found == FindIndex(getProjects(localStorage), project.id) # -1
        IN  /\ localStorage' = updateProjectInStorage(localStorage, project, now, ok)
            /\ outcome' = IF found THEN SetItemThrew(ok) ELSE {}
            /\ last' = IF found THEN "updateProject" ELSE "storage"
            /\ UNCHANGED <<mediaDB, inflight, now, other, playerVars, memory, mediaSrc, syncDeps, currentProject>>

\* HomePage.handleCreateProject: createProject, then its own read and write of
\* PROJECT_KEY, outside any try.
handleCreateProject ==
    \E id \in ProjectIds \ IdsOf(getProjects(localStorage)),
       g \in IdsOf(getGroups(localStorage)) \cup {Undefined}, ok \in BOOLEAN :
        LET newProject == createProject(id, g, now)
            currentProjects == getProjects(localStorage)
        IN  /\ localStorage' =
                  IF ok THEN SetItem(localStorage, PROJECT_KEY,
                                     JSONstringify(Append(currentProjects, newProject)))
                        ELSE localStorage
            /\ outcome' = IF ok THEN {}
                          ELSE {Failed("setItem", "threw"), Failed("handleCreateProject", "threw")}
            /\ last' = "storage"
            /\ UNCHANGED <<mediaDB, inflight, now, other, playerVars, memory, mediaSrc, syncDeps, currentProject>>

\* HomePage.handleCreateGroup: createGroup(name)
handleCreateGroup ==
    \E g \in GroupIds \ IdsOf(getGroups(localStorage)), ok \in BOOLEAN :
        LET newGroup == [id |-> g, name |-> g]
            groups == getGroups(localStorage)
        IN  /\ localStorage' = IF ok THEN saveGroups(localStorage, Append(groups, newGroup))
                                     ELSE localStorage
            /\ outcome' = IF ok THEN {}
                          ELSE {Failed("setItem", "threw"), Failed("saveGroups", "threw"),
                                Failed("createGroup", "threw")}
            /\ last' = "storage"
            /\ UNCHANGED <<mediaDB, inflight, now, other, playerVars, memory, mediaSrc, syncDeps, currentProject>>

\* HomePage.confirmDelete of a project: deleteProjectFromStorage(id) up to its
\* await: the collection is read, filtered and saved, deleteMediaFromDB starts.
confirmDeleteProject ==
    /\ Len(inflight) < MaxInflight
    /\ \E id \in ProjectIds, ok \in BOOLEAN :
        /\ localStorage' = saveProjects(localStorage,
                                        WithoutId(getProjects(localStorage), id), ok)
        /\ inflight' = Append(inflight, [op |-> "delete", id |-> id])
        /\ outcome' = SetItemThrew(ok)
    /\ last' = "storage"
    /\ UNCHANGED <<mediaDB, now, other, playerVars, memory, mediaSrc, syncDeps, currentProject>>

\* HomePage.confirmDelete of a group: deleteGroup(g).  saveGroups throws when
\* its write fails and the rest of deleteGroup is skipped.
confirmDeleteGroup ==
    \E g \in GroupIds, okG \in BOOLEAN, okP \in BOOLEAN :
        LET groups == getGroups(localStorage)
            ls1 == saveGroups(localStorage, WithoutId(groups, g))
        IN  /\ localStorage' =
                  IF okG THEN saveProjects(ls1, Reassign(getProjects(ls1), g), okP)
                         ELSE localStorage
            /\ outcome' =
                  IF okG THEN SetItemThrew(okP)
                         ELSE {Failed("setItem", "threw"), Failed("saveGroups", "threw"),
                               Failed("deleteGroup", "threw")}
            /\ last' = IF okG /\ okP /\ Reassign(getProjects(ls1), g) # getProjects(ls1)
                       THEN "reassigned" ELSE "deleteGroup"
            /\ UNCHANGED <<mediaDB, inflight, now, other, playerVars, memory, mediaSrc, syncDeps, currentProject>>

\* HomePage.handleMoveProject: moveProjectToGroup(id, groupId)
handleMoveProject ==
    \E id \in ProjectIds, g \in IdsOf(getGroups(localStorage)) \cup {Undefined},
       ok \in BOOLEAN :
        LET found == FindIndex(getProjects(localStorage), id) # -1
        IN  /\ localStorage' = moveProjectToGroup(localStorage, id, g, ok)
            /\ outcome' = IF found THEN SetItemThrew(ok) ELSE {}
            /\ last' = "storage"
            /\ UNCHANGED <<mediaDB, inflight, now, other, playerVars, memory, mediaSrc, syncDeps, currentProject>>

\* PlayerPage.handleMediaUpload up to its await: saveMediaToDB(project.id, file) starts.
handleMediaUpload ==
    /\ Len(inflight) < MaxInflight
    /\ \E id \in ProjectIds :
        /\ inflight' = Append(inflight, [op |-> "put", id |-> id])
        /\ mediaSrc' = BlobUrl
        /\ outcome' = {}
    /\ last' = "storage"
    /\ UNCHANGED <<localStorage, mediaDB, now, other, playerVars, memory, syncDeps, currentProject>>

\* PlayerPage is mounted on a project that has a mediaName and no mediaUrl (its
\* mediaSrc is null): the loadMedia effect up to its await, getMediaFromDB(project.id)
\* starts.
loadMedia ==
    /\ Len(inflight) < MaxInflight
    /\ \E id \in ProjectIds :
        /\ inflight' = Append(inflight, [op |-> "get", id |-> id])
        /\ outcome' = {}
    /\ mediaSrc' = NoSrc
    /\ last' = "storage"
    /\ UNCHANGED <<localStorage, mediaDB, now, other, playerVars, memory, syncDeps, currentProject>>

\* How a binary-store operation ends: done, initDB rejected (no IndexedDB,
\* open failed), or the transaction / request failed.
MediaResults == {"ok", "noDB", "failed"}

\* saveMediaToDB / getMediaFromDB / deleteMediaFromDB:
\*   try { const db = await initDB(); return new Promise(...) } catch { log }
\* A rejection of initDB is caught; the returned promise is not awaited inside
\* the try, so its rejection is the rejection of the call.
MediaCallFails(op, res) == IF res = "failed" THEN {Failed(op, "rejected")} ELSE {}

\* Bug variant: the rejection caught around the await is thrown again.
AwaitInTry_Rethrows(failures, caller) ==
    failures \cup {Failed(caller, "rejected") : f \in failures}

\* try { await call } catch { log }: the failure stops here.
AwaitInTry(failures, caller) == failures

\* await call, outside any try: the failure is the caller's failure too.
AwaitBare(failures, caller) ==
    failures \cup {Failed(caller, "rejected") : f \in failures}

\* deleteMediaFromDB settles; deleteProjectFromStorage resumes after its await,
\* inside try / catch, and returns.
deleteMediaSettles ==
    /\ inflight # << >>
    /\ Head(inflight).op = "delete"
    /\ \E res \in MediaResults :
        /\ mediaDB' = IF res = "ok" THEN mediaDB \ {Head(inflight).id} ELSE mediaDB
        /\ outcome' = AwaitInTry(MediaCallFails("deleteMediaFromDB", res),
                                  "deleteProjectFromStorage")
    /\ inflight' = Tail(inflight)
    /\ last' = "storage"
    /\ UNCHANGED <<localStorage, now, other, playerVars, memory, mediaSrc, syncDeps, currentProject>>

\* saveMediaToDB settles; handleMediaUpload awaits it outside any try.
saveMediaSettles ==
    /\ inflight # << >>
    /\ Head(inflight).op = "put"
    /\ \E res \in MediaResults :
        /\ mediaDB' = IF res = "ok" THEN mediaDB \cup {Head(inflight).id} ELSE mediaDB
        /\ outcome' = AwaitBare(MediaCallFails("saveMediaToDB", res), "handleMediaUpload")
    /\ inflight' = Tail(inflight)
    /\ last' = "storage"
    /\ UNCHANGED <<localStorage, now, other, playerVars, memory, mediaSrc, syncDeps, currentProject>>

\* Bug variant: a request for a key without entry answers with another entry.
StoreGet_AnyEntry(db, id) ==
    IF id \in db THEN id
    ELSE IF db # {} THEN CHOOSE x \in db : TRUE ELSE Undefined

\* store.get(projectId): request.result is the entry, undefined when there is none.
StoreGet(db, id) == IF id \in db THEN id ELSE Undefined

\* What `file` is in loadMedia after the await: the value getMediaFromDB
\* resolved with; undefined when initDB was rejected (the catch returns it);
\* never assigned when the request failed (the await throws).
getMediaFromDB(db, id, res) == IF res = "ok" THEN StoreGet(db, id) ELSE Undefined

\* getMediaFromDB settles; loadMedia awaits it inside try / catch and sets
\* mediaSrc to a blob URL of the file if there is one.  The step is tagged
\* "got" when the store answered the request (request.onsuccess).
getMediaSettles ==
    /\ inflight # << >>
    /\ Head(inflight).op = "get"
    /\ \E res \in MediaResults :
        LET file == getMediaFromDB(mediaDB, Head(inflight).id, res)
        IN  /\ outcome' = AwaitInTry(MediaCallFails("getMediaFromDB", res), "loadMedia")
            /\ mediaSrc' = IF file # Undefined THEN BlobUrl ELSE mediaSrc
            /\ last' = IF res = "ok" THEN "got" ELSE "storage"
    /\ inflight' = Tail(inflight)
    /\ UNCHANGED <<localStorage, mediaDB, now, other, playerVars, memory, syncDeps, currentProject>>

\* Time passes (Date.now() does not run backwards).
Tick ==
    /\ now < MaxClock
    /\ now' = now + 1
    /\ outcome' = {}
    /\ last' = "storage"
    /\ UNCHANGED <<localStorage, mediaDB, inflight, other, playerVars, memory, mediaSrc, syncDeps, currentProject>>

\* The application on the home page of a fresh profile, no player mounted.
InitStorage ==
    /\ Init
    /\ sentences = << >>
    /\ settings = [loopCountOption |-> 1, autoPlayNext |-> TRUE, playbackRate |-> 1]

\* The project and group collections (HomePage, the sync effect of PlayerPage).
NextStorage ==
    \/ updateProject
    \/ handleCreateProject
    \/ handleCreateGroup
    \/ confirmDeleteGroup
    \/ handleMoveProject
    \/ Tick

SpecStorage == InitStorage /\ [][NextStorage]_vars

\* The collections together with the media store, at one instant of Date.now().
NextMedia ==
    \/ updateProject
    \/ handleCreateProject
    \/ handleCreateGroup
    \/ confirmDeleteProject
    \/ confirmDeleteGroup
    \/ handleMoveProject
    \/ handleMediaUpload
    \/ loadMedia
    \/ deleteMediaSettles
    \/ saveMediaSettles
    \/ getMediaSettles

SpecMedia == InitStorage /\ [][NextMedia]_vars

----------------------------------------------------------------------------
(* A second instance of the application on the same localStorage *)

\* What the other instance does to the Project collection: the sync effect of
\* its player (update), a move, or the creation of a project.
OtherOps ==
    [kind : {"update"}, id : ProjectIds, arg : Revs]
    \cup [kind : {"move", "create"}, id : ProjectIds, arg : GroupIds \cup {Undefined}]

\* localStorage.getItem(PROJECT_KEY) as the other instance saw it.
ProjectItem(ls) == [k \in DOMAIN ls \cap {PROJECT_KEY} |-> ls[k]]

\* Bug variant: the write is computed from the collection as stored now.
ReadByWriter_Fresh(ls, base) == ProjectItem(ls)

\* The collection a read-modify-write is computed from: the one its
\* getProjects() returned (storageService.ts: const projects = getProjects()).
ReadByWriter(ls, base) == base

\* The collection the operation saves, computed from the collection it read.
OtherSaves(op, read, t) ==
    LET projects == getProjects(read)
    IN  CASE op.kind = "update" ->
               UpdateIn(projects, With(RecordOf(projects, op.id), "rev", op.arg), t)
          [] op.kind = "move" -> MoveIn(projects, op.id, op.arg)
          [] op.kind = "create" -> Append(projects, createProject(op.id, op.arg, t))

\* The other instance runs the read of a read-modify-write.
OtherTabReads ==
    /\ other.pc = "idle"
    /\ \E op \in OtherOps :
        /\ IF op.kind = "create" THEN op.id \notin IdsOf(getProjects(localStorage))
                                 ELSE op.id \in IdsOf(getProjects(localStorage))
        /\ op.kind # "update" => op.arg \in IdsOf(getGroups(localStorage)) \cup {Undefined}
        /\ other' = [pc |-> "read", op |-> op, base |-> ProjectItem(localStorage)]
    /\ outcome' = {}
    /\ last' = "storage"
    /\ UNCHANGED <<localStorage, mediaDB, inflight, now, playerVars, memory, mediaSrc, syncDeps, currentProject>>

\* The other instance runs the write of its read-modify-write.
OtherTabWrites ==
    /\ other.pc = "read"
    /\ \E ok \in BOOLEAN :
        /\ localStorage' =
              saveProjects(localStorage,
                           OtherSaves(other.op, ReadByWriter(localStorage, other.base), now),
                           ok)
        /\ outcome' = SetItemThrew(ok)
        /\ last' = IF ok /\ ProjectItem(localStorage) # other.base
                   THEN "overwrote" ELSE "storage"
    /\ other' = [pc |-> "idle", op |-> [kind |-> "none", id |-> 0, arg |-> 0],
                 base |-> << >>]
    /\ UNCHANGED <<mediaDB, inflight, now, playerVars, memory, mediaSrc, syncDeps, currentProject>>

\* No project is open: PlayerPage is not mounted.
PlayerClosed ==
    /\ sentences = << >>
    /\ currentSentenceId = NoSentence
    /\ settings = [loopCountOption |-> 1, autoPlayNext |-> TRUE, playbackRate |-> 1]
    /\ isPlaying = FALSE
    /\ currentTime = 0
    /\ currentLoop = 0
    /\ isDelaying = FALSE
    /\ media = [currentTime |-> 0, paused |-> TRUE, playbackRate |-> 1]
    /\ timers = << >>
    /\ last = "init"
    /\ clean = TRUE
    /\ crossings = 0
    /\ edits = 0
    /\ imported = NoImport

\* Two instances on the home page of a profile that has one group.
InitTabs ==
    /\ PlayerClosed
    /\ localStorage = saveGroups(<< >>, << [id |-> 1, name |-> 1] >>)
    /\ mediaDB = {}
    /\ inflight = << >>
    /\ now = 0
    /\ outcome = {}
    /\ other = [pc |-> "idle", op |-> [kind |-> "none", id |-> 0, arg |-> 0],
                base |-> << >>]
    /\ mediaSrc = NoSrc
    /\ syncDeps = NoSync
    /\ currentProject = OpenedProject
    /\ memory = NoMemory

NextTabs ==
    \/ updateProject
    \/ handleCreateProject
    \/ handleMoveProject
    \/ OtherTabReads
    \/ OtherTabWrites

SpecTabs == InitTabs /\ [][NextTabs]_vars

----------------------------------------------------------------------------
(* Saving a collection and loading it again *)

\* The Project objects the program builds: groupId set, explicitly undefined
\* (createProject at the root, deleteGroup, a move to the root) or missing
\* (an object parsed from storage).
ProjectObjects ==
    [id : ProjectIds, groupId : GroupIds \cup {Undefined},
     lastAccessedAt : 0..MaxClock, rev : Revs]
    \cup [id : ProjectIds, lastAccessedAt : 0..MaxClock, rev : Revs]

\* The ProjectGroup objects the program builds (no optional field).
GroupObjects == [id : GroupIds, name : GroupIds]

\* Arrays of at most two objects with distinct ids.
ArraysOf(objects) ==
    {<< >>} \cup {<<x>> : x \in objects}
    \cup {<<q[1], q[2]>> : q \in {r \in objects \X objects : r[1].id # r[2].id}}

\* A collection is handed to saveProjects or saveGroups on a fresh profile.
InitRoundTrip ==
    /\ PlayerClosed
    /\ StorageInit
    /\ memory \in [phase : {"made"}, key : {PROJECT_KEY},
                   coll : ArraysOf(ProjectObjects), loaded : {<< >>}]
                  \cup [phase : {"made"}, key : {GROUP_KEY},
                        coll : ArraysOf(GroupObjects), loaded : {<< >>}]

\* saveProjects(coll) / saveGroups(coll); a failed write of the groups throws.
Save ==
    /\ memory.phase = "made"
    /\ \E ok \in BOOLEAN :
        /\ localStorage' =
              IF memory.key = PROJECT_KEY
              THEN saveProjects(localStorage, memory.coll, ok)
              ELSE IF ok THEN saveGroups(localStorage, memory.coll) ELSE localStorage
        /\ outcome' =
              IF ok \/ memory.key = PROJECT_KEY THEN SetItemThrew(ok)
              ELSE {Failed("setItem", "threw"), Failed("saveGroups", "threw")}
        /\ memory' = [memory EXCEPT !.phase = IF ok THEN "saved" ELSE "notSaved"]
    /\ last' = "storage"
    /\ UNCHANGED <<mediaDB, inflight, now, other, playerVars, mediaSrc, syncDeps, currentProject>>

\* getProjects() / getGroups()
Load ==
    /\ memory.phase \in {"saved", "notSaved"}
    /\ memory' = [memory EXCEPT
                    !.phase = IF memory.phase = "saved" THEN "loaded" ELSE "loadedOld",
                    !.loaded = IF memory.key = PROJECT_KEY THEN getProjects(localStorage)
                                                           ELSE getGroups(localStorage)]
    /\ outcome' = {}
    /\ last' = "storage"
    /\ UNCHANGED <<localStorage, mediaDB, inflight, now, other, playerVars, mediaSrc, syncDeps, currentProject>>

NextRoundTrip ==
    \/ Save
    \/ Load

SpecRoundTrip == InitRoundTrip /\ [][NextRoundTrip]_vars

----------------------------------------------------------------------------
(* The session of one project: PlayerPage with its Persistence Sync effect,  *)
(* and the page opened again from what was stored                           *)

\* The project prop of PlayerPage: <PlayerPage project={currentProject} ... />
project == currentProject

\* const updatedProject = { ...project, sentences, lastActiveIndex:
\*   sentences.findIndex(s => s.id === currentSentenceId), ..., currentTime }
updatedProject ==
    With(With(With(project, "sentences", sentences),
              "lastActiveIndex", FindIndex(sentences, currentSentenceId)),
         "currentTime", currentTime)

\* The dependencies [sentences, currentSentenceId, ..., currentTime] differ
\* from the ones of the last run, or the page was just mounted.
SyncPending ==
    \/ ~syncDeps.ran
    \/ syncDeps.sentences # sentences
    \/ syncDeps.currentSentenceId # currentSentenceId
    \/ syncDeps.currentTime # currentTime

\* The Persistence Sync effect runs: updateProjectInStorage(updatedProject).
PersistenceSync ==
    /\ SyncPending
    /\ \E ok \in BOOLEAN :
        /\ ~ok => syncDeps.failures < MaxFailures
        /\ localStorage' = updateProjectInStorage(localStorage, updatedProject, now, ok)
        /\ outcome' = SetItemThrew(ok)
        /\ syncDeps' = [ran |-> TRUE, sentences |-> sentences,
                        currentSentenceId |-> currentSentenceId,
                        currentTime |-> currentTime,
                        saved |-> ok /\ FindIndex(getProjects(localStorage), project.id) # -1,
                        failures |-> syncDeps.failures + IF ok THEN 0 ELSE 1]
    /\ last' = "sync"
    /\ UNCHANGED <<mediaDB, inflight, now, other, playerVars, memory, mediaSrc,
                   currentProject>>

\* Bug variant: the index is taken as a position counted from 1.
LastActiveId_FromOne(p) ==
    IF p.lastActiveIndex >= 1 /\ p.lastActiveIndex <= Len(p.sentences)
    THEN p.sentences[p.lastActiveIndex].id
    ELSE IF p.lastActiveIndex = 0 /\ p.sentences # << >> THEN p.sentences[1].id
    ELSE NoSentence

\* project.lastActiveIndex >= 0 && project.sentences[project.lastActiveIndex]
\*   ? project.sentences[project.lastActiveIndex].id : null
LastActiveId(p) ==
    IF p.lastActiveIndex >= 0 /\ p.lastActiveIndex < Len(p.sentences)
    THEN At(p.sentences, p.lastActiveIndex).id
    ELSE NoSentence

\* A remote media address typed into the URL form.
RemoteUrl == 2

\* The media fields of a Project.
MediaKeys == {"mediaType", "mediaName", "mediaUrl"}

\* What the handlers of PlayerPage read of the record it is opened on (the
\* other fields are read once, into the page's own state).
PropsOf(p) == [k \in DOMAIN p \cap ({"id", "rev"} \cup MediaKeys) |-> p[k]]

\* loadMedia looks for the file of the project in the media store:
\*   no project.mediaUrl, and project.mediaName && !mediaSrc.
\* The mediaName '' of a new project is falsy like undefined and is modelled
\* as an absent property.
LoadsFromDB(p) == Get(p, "mediaUrl") = Undefined /\ Get(p, "mediaName") # Undefined

\* The page is loaded again (or left and opened again) and the project is
\* opened from getProjects(): PlayerPage and MediaPlayer are mounted with their
\* initial state on a new media element; no timer of the old page is left.
\* The loadMedia effect of the mount takes the stored mediaUrl, or asks the
\* media store when the record has a mediaName.
Reopen ==
    /\ ~SyncPending
    /\ project.id \in IdsOf(getProjects(localStorage))
    /\ LET p == RecordOf(getProjects(localStorage), project.id)
       IN  /\ sentences' = p.sentences
           /\ currentSentenceId' = LastActiveId(p)
           /\ currentTime' = p.currentTime
           /\ currentProject' = PropsOf(p)
           /\ mediaSrc' = IF Get(p, "mediaUrl") # Undefined THEN p.mediaUrl ELSE NoSrc
           /\ LoadsFromDB(p) => Len(inflight) < MaxInflight
           /\ inflight' = IF LoadsFromDB(p)
                          THEN Append(inflight, [op |-> "get", id |-> p.id])
                          ELSE inflight
    /\ isPlaying' = FALSE
    /\ currentLoop' = 0
    /\ isDelaying' = FALSE
    /\ media' = [currentTime |-> 0, paused |-> TRUE, playbackRate |-> settings.playbackRate]
    /\ timers' = << >>
    /\ clean' = TRUE
    /\ crossings' = 0
    /\ syncDeps' = [NoSync EXCEPT !.failures = syncDeps.failures]
    /\ outcome' = {}
    /\ last' = "reopen"
    /\ UNCHANGED <<settings, edits, imported, localStorage, mediaDB, now, other, memory>>

\* The files imported in a session.
SessionContents ==
    { [isSrt |-> FALSE, body |-> << >>],
      [isSrt |-> FALSE,
       body |-> <<MarkerLine(Written(0, 0), Written(1, 500), "d"), TextLine("b", 40)>>] }

\* The stored record of a project with two segments, none active.
StoredAtFirst ==
    [id |-> OpenedProject.id, lastAccessedAt |-> 0, rev |-> 0,
     sentences |-> << Sentence(1, 0, 1), Sentence(2, 1, 2) >>,
     lastActiveIndex |-> -1, currentTime |-> 0]

\* The player just opened on the stored project.
InitSession ==
    /\ PlayerInit
    /\ sentences = StoredAtFirst.sentences
    /\ currentSentenceId = LastActiveId(StoredAtFirst)
    /\ settings = [loopCountOption |-> 1, autoPlayNext |-> TRUE, playbackRate |-> 1]
    /\ localStorage = saveProjects(<< >>, <<StoredAtFirst>>, TRUE)
    /\ mediaDB = {}
    /\ inflight = << >>
    /\ now = 0
    /\ outcome = {}
    /\ other = [pc |-> "idle", op |-> [kind |-> "none", id |-> 0, arg |-> 0],
                base |-> << >>]
    /\ mediaSrc = NoSrc
    /\ syncDeps = NoSync
    /\ currentProject = OpenedProject
    /\ memory = NoMemory

\* A handler runs when the effects of the last render have run.
NextSession ==
    \/ PersistenceSync
    \/ Reopen
    \/ ~SyncPending /\ handleSentenceClick
    \/ ~SyncPending /\ updateSentence
    \/ ~SyncPending /\ FileUpload(SessionContents)
    \/ ~SyncPending /\ MediaAdvance
    \/ ~SyncPending /\ handleTimeUpdate

SpecSession == InitSession /\ [][NextSession]_vars

----------------------------------------------------------------------------
(* Vocabulary of the properties *)

\* The steps that are a run of handleTimeUpdate.
TimeUpdateTags == {"noSentence", "delaying", "below", "loop", "advance", "stop"}

TerminalTags == {"advance", "stop"}

HasActive == activeSentence.id # NoSentence

\* The position is at or past the end of the active segment and the engine
\* is not waiting for the loop delay.
Crossing ==
    HasActive /\ ~isDelaying /\ media.currentTime >= activeSentence.endTime

\* The loop budget is finite and used up.
BudgetExhausted ==
    settings.loopCountOption # -1 /\ currentLoop >= settings.loopCountOption - 1

\* The active segment is followed by another one in array order.
HasNext == FindIndex(sentences, currentSentenceId) < Len(sentences) - 1

NextSentence == sentences[FindIndex(sentences, currentSentenceId) + 2]

----------------------------------------------------------------------------
(* The loop budget *)

\* C1: with a finite, unchanged loop count N and no user interference since
\* the budget of the active segment began, a crossing of the segment's end
\* that takes the terminal branch is the N-th one (N - 1 re-loop cycles came
\* before it), and a crossing that schedules the delay timer is at most the
\* (N - 1)-th; for N = 1 no timer is scheduled.
C1_ExactlyNMinusOneCycles ==
    [][(clean /\ settings.loopCountOption # -1)
         => /\ last' \in TerminalTags => crossings = settings.loopCountOption - 1
            /\ last' = "loop" => crossings < settings.loopCountOption - 1]_vars

\* C2: when the budget is exhausted at the end of a segment that has no next
\* segment, the transport is paused and put at the segment's start,
\* loopsCompleted is 0 and the segment stays active, also with autoPlayNext.
C2_LastSegmentStops ==
    [][(last' \in TimeUpdateTags /\ Crossing /\ BudgetExhausted /\ ~HasNext)
         => /\ media'.paused
            /\ media'.currentTime = activeSentence.startTime
            /\ currentLoop' = 0
            /\ currentSentenceId' = currentSentenceId]_vars

\* C3: with autoPlayNext off, a crossing with the budget exhausted leaves the
\* transport paused at the segment's start, loopsCompleted 0 and the active
\* segment unchanged, with or without a next segment.
C3_StopLeavesSegmentReady ==
    [][(last' \in TimeUpdateTags /\ Crossing /\ BudgetExhausted /\ ~settings.autoPlayNext)
         => /\ media'.paused
            /\ media'.currentTime = activeSentence.startTime
            /\ currentLoop' = 0
            /\ currentSentenceId' = currentSentenceId]_vars

C3_Witness ==
    /\ last = "stop" /\ ~settings.autoPlayNext /\ HasNext
    /\ media.paused /\ media.currentTime = activeSentence.startTime
    /\ currentTime >= activeSentence.endTime /\ isPlaying

\* C4: with autoPlayNext on and a next segment in array order, a crossing
\* with the budget exhausted makes the next segment active with
\* loopsCompleted 0 and no delay, the transport at its start and not paused.
C4_AdvanceSelectsNext ==
    [][(last' \in TimeUpdateTags /\ Crossing /\ BudgetExhausted
          /\ settings.autoPlayNext /\ HasNext)
         => /\ currentSentenceId' = NextSentence.id
            /\ currentLoop' = 0
            /\ ~isDelaying'
            /\ media'.currentTime = NextSentence.startTime
            /\ ~media'.paused]_vars

C4_Witness ==
    /\ last = "advance" /\ settings.autoPlayNext
    /\ FindIndex(sentences, currentSentenceId) = 1
    /\ currentTime >= sentences[1].endTime
    /\ media.currentTime = activeSentence.startTime /\ ~media.paused
    /\ currentLoop = 0

----------------------------------------------------------------------------
(* The loop-delay timer *)

\* C5: a change of the active segment or of the settings while the engine
\* awaits the loop delay cancels the pending timer: none is pending once the
\* new state is applied, so the timer cannot fire afterwards.
C5_ChangeCancelsTimer ==
    [][(isDelaying /\ timers # << >>
          /\ (currentSentenceId' # currentSentenceId \/ settings' # settings))
         => timers' = << >>]_vars

\* C6: a loop-delay timer that fires belongs to the segment active at that
\* moment and puts the transport at that segment's start; and a segment whose
\* end has not been crossed since it became active has loopsCompleted = 0.
C6_TimerActsOnActiveSegment ==
    [][/\ last' = "timer"
            => /\ Head(timers).id = currentSentenceId
               /\ media'.currentTime = activeSentence.startTime
       /\ (clean' /\ crossings' = 0 /\ last' \notin TimeUpdateTags)
            => currentLoop' = 0]_vars

----------------------------------------------------------------------------
(* Selection *)

\* C7: a user action that makes a different segment the active one, in any
\* engine state, leaves that segment active with loopsCompleted = 0, no
\* delay awaited, the transport at the segment's start and playing.
C7_SelectionResetsEngine ==
    [][(currentSentenceId' # currentSentenceId /\ last' \notin TimeUpdateTags)
         => LET s == ActiveSentenceOf(sentences', currentSentenceId')
            IN  /\ s.id # NoSentence
                /\ currentLoop' = 0
                /\ ~isDelaying'
                /\ media'.currentTime = s.startTime
                /\ ~media'.paused]_vars

\* A segment selected while the delay timer of another one is pending.
C7_Witness ==
    /\ last = "select" /\ timers # << >> /\ timers[1].id # currentSentenceId
    /\ HasActive /\ currentLoop = 0 /\ ~isDelaying
    /\ media.currentTime = activeSentence.startTime /\ ~media.paused

----------------------------------------------------------------------------
(* Position updates that cause no transition *)

\* C8: while the engine awaits the loop delay, a position update schedules no
\* timer, does not touch the transport, the active segment or
\* loopsCompleted, and leaves the delay awaited, wherever the position is.
C8_NoTransitionWhileDelaying ==
    [][(isDelaying /\ last' \in TimeUpdateTags)
         => UNCHANGED <<timers, media, currentSentenceId, currentLoop, isDelaying>>]_vars

\* A position update at or past the end, handled during the delay.
C8_Witness ==
    /\ last = "delaying" /\ isDelaying /\ timers # << >>
    /\ media.currentTime >= activeSentence.endTime
    /\ currentTime = media.currentTime

\* C9: a position update with no active segment pauses the transport and
\* does nothing else: the position is not propagated, no timer is scheduled,
\* loopsCompleted and the delay flag are unchanged.
C9_NoSentencePausesOnly ==
    [][(~HasActive /\ last' \in TimeUpdateTags)
         => /\ media'.paused
            /\ media'.currentTime = media.currentTime
            /\ media'.playbackRate = media.playbackRate
            /\ UNCHANGED <<currentTime, timers, currentLoop, isDelaying,
                           currentSentenceId>>]_vars

\* A playing transport was paused, and its position was not propagated.
C9_Witness ==
    /\ last = "noSentence" /\ ~HasActive /\ media.paused /\ isPlaying
    /\ currentTime # media.currentTime

\* C10: a position update before the end of the active segment only
\* propagates the position: active segment, loopsCompleted, delay flag,
\* transport and timers are unchanged.
C10_BelowEndOnlyPropagates ==
    [][(HasActive /\ media.currentTime < activeSentence.endTime
          /\ last' \in TimeUpdateTags)
         => /\ currentTime' = media.currentTime
            /\ UNCHANGED <<currentSentenceId, currentLoop, isDelaying, media,
                           timers>>]_vars

\* The position of a playing transport inside the segment was propagated.
C10_Witness ==
    /\ last = "below" /\ HasActive /\ ~media.paused
    /\ media.currentTime > activeSentence.startTime
    /\ media.currentTime < activeSentence.endTime
    /\ currentTime = media.currentTime

----------------------------------------------------------------------------
(* Unbounded budget and playback rate *)

\* C11: with loopCountOption = -1 every crossing of the active segment's end
\* takes the re-loop branch, whatever loopsCompleted is: the transport is
\* paused, the delay awaited and a timer scheduled for the active segment;
\* the segment stays active and the terminal branch is not taken.
C11_UnboundedAlwaysLoops ==
    [][(last' \in TimeUpdateTags /\ Crossing /\ settings.loopCountOption = -1)
         => /\ last' = "loop"
            /\ media'.paused /\ isDelaying'
            /\ timers' = Append(timers, activeSentence)
            /\ currentSentenceId' = currentSentenceId
            /\ currentLoop' = currentLoop]_vars

\* A re-loop taken after two loops were already completed.
C11_Witness ==
    /\ last = "loop" /\ settings.loopCountOption = -1
    /\ currentLoop >= 2 /\ isDelaying /\ media.paused
    /\ timers # << >> /\ timers[Len(timers)] = activeSentence

\* C12: a change of playbackRate changes the rate of the transport and
\* nothing else of the engine: active segment, loopsCompleted, delay flag,
\* timers, position and paused state are unchanged, and each branch of the
\* position-update handler is enabled after the change exactly if it was
\* before.
C12_RateChangeOnlyChangesRate ==
    [][settings'.playbackRate # settings.playbackRate
         => /\ media'.playbackRate = settings'.playbackRate
            /\ media'.currentTime = media.currentTime
            /\ media'.paused = media.paused
            /\ UNCHANGED <<sentences, currentSentenceId, currentLoop, isDelaying, timers>>
            /\ settings'.loopCountOption = settings.loopCountOption
            /\ settings'.autoPlayNext = settings.autoPlayNext
            /\ (ENABLED TimeUpdateNoSentence)' = ENABLED TimeUpdateNoSentence
            /\ (ENABLED TimeUpdatePropagate)' = ENABLED TimeUpdatePropagate
            /\ (ENABLED TimeUpdateLoop)' = ENABLED TimeUpdateLoop
            /\ (ENABLED TimeUpdateAdvance)' = ENABLED TimeUpdateAdvance
            /\ (ENABLED TimeUpdateStop)' = ENABLED TimeUpdateStop]_vars

\* The rate was changed while the transport played inside a segment that
\* had already completed a loop.
C12_Witness ==
    /\ last = "user" /\ media.playbackRate = 2 /\ settings.playbackRate = 2
    /\ ~media.paused /\ HasActive /\ currentLoop >= 1
    /\ media.currentTime < activeSentence.endTime

\* C13: when the active segment changes (selection, auto-advance or an edit
\* of the active segment) with autoPlayNext on and the transport playing, the
\* step leaves the transport inside the new segment's [startTime, endTime],
\* or at the new startTime: a position outside the new range is never what
\* the next boundary check sees.
C13_ChangeReclampsPosition ==
    [][(/\ activeSentence' # activeSentence
        /\ activeSentence'.id # NoSentence
        /\ settings.autoPlayNext
        /\ ~media'.paused)
         => \/ /\ media'.currentTime >= activeSentence'.startTime
               /\ media'.currentTime <= activeSentence'.endTime
            \/ media'.currentTime = Seek(media, activeSentence'.startTime).currentTime]_vars

\* An edit of the playing active segment left the position outside the new
\* range, and the effect moved it to the new start.
C13_Witness ==
    /\ last = "reclamp"
    /\ settings.autoPlayNext /\ ~media.paused
    /\ activeSentence.id # NoSentence
    /\ media.currentTime = activeSentence.startTime
    /\ currentLoop = 0 /\ ~isDelaying

----------------------------------------------------------------------------
(* Vocabulary of the storage properties *)

projectsNow == getProjects(localStorage)
projectsNext == getProjects(localStorage')
groupsNow == getGroups(localStorage)
groupsNext == getGroups(localStorage')

\* The records other than those in ids are the same, in the same order.
OthersUntouched(before, after, ids) ==
    SelectSeq(before, LAMBDA x : x.id \notin ids) = SelectSeq(after, LAMBDA x : x.id \notin ids)

\* No localStorage write failed in the step.
WritesSucceed == Failed("setItem", "threw") \notin outcome'

\* The step is the synchronous part of deleteProjectFromStorage(id).
DeleteProjectStarts(id) == inflight' = Append(inflight, [op |-> "delete", id |-> id])

\* The step settles the deleteMediaFromDB that deleteProjectFromStorage awaits.
DeleteProjectResumes ==
    /\ inflight # << >>
    /\ Head(inflight).op = "delete"
    /\ inflight' = Tail(inflight)

\* C14: deleteProjectFromStorage(id), its write of the collection succeeding,
\* leaves the Project collection without a record of that id and with every
\* other record as it was, in order; when the paired deleteMediaFromDB settles
\* (done, database unavailable, or the transaction failed) the collections stay
\* as they are and no failure reaches the caller of deleteProjectFromStorage.
C14_DeleteSurvivesBlobFailure ==
    [][/\ \A id \in ProjectIds :
            (DeleteProjectStarts(id) /\ WritesSucceed)
              => /\ id \notin IdsOf(projectsNext)
                 /\ OthersUntouched(projectsNow, projectsNext, {id})
                 /\ groupsNext = groupsNow
       /\ DeleteProjectResumes
              => /\ localStorage' = localStorage
                 /\ \A f \in outcome' : f.op = "deleteMediaFromDB"]_vars

\* The blob deletion of a deleted project failed: the record is gone, the blob
\* is still stored, and only deleteMediaFromDB itself reported the failure.
C14_Witness ==
    /\ outcome = {Failed("deleteMediaFromDB", "rejected")}
    /\ \E id \in mediaDB : id \notin IdsOf(projectsNow)
    /\ projectsNow # << >>

\* The step is deleteGroup(g) on a stored group g, past its saveGroups.
DeleteGroupStep(g) ==
    /\ last' \in {"deleteGroup", "reassigned"}
    /\ g \in IdsOf(groupsNow)
    /\ g \notin IdsOf(groupsNext)

\* C15: deleteGroup(g), its writes succeeding, removes g and no other group,
\* keeps every project in its place, leaves a project whose groupId was g
\* without a groupId and otherwise as it was, and leaves every other project
\* as it was.
C15_DeleteGroupReassigns ==
    [][\A g \in GroupIds :
          (DeleteGroupStep(g) /\ WritesSucceed)
            => /\ OthersUntouched(groupsNow, groupsNext, {g})
               /\ Len(projectsNext) = Len(projectsNow)
               /\ \A i \in DOMAIN projectsNow :
                    LET b == projectsNow[i]
                        a == projectsNext[i]
                    IN  IF Get(b, "groupId") = g
                        THEN /\ DOMAIN a = DOMAIN b \ {"groupId"}
                             /\ \A k \in DOMAIN a : a[k] = b[k]
                        ELSE a = b]_vars

\* A group was deleted with a project in it; that project is now at the root
\* and a project of the other group still has its groupId.
C15_Witness ==
    /\ last = "reassigned"
    /\ Len(groupsNow) = 1
    /\ \E i \in DOMAIN projectsNow : "groupId" \notin DOMAIN projectsNow[i]
    /\ \E i \in DOMAIN projectsNow : Get(projectsNow[i], "groupId") = groupsNow[1].id

\* The exported functions of storageService.ts and mediaStorageService.ts.
StorageLayer ==
    {"getProjects", "saveProjects", "updateProjectInStorage", "deleteProjectFromStorage",
     "moveProjectToGroup", "getGroups", "saveGroups", "createGroup", "deleteGroup",
     "saveMediaToDB", "getMediaFromDB", "deleteMediaFromDB"}

\* C16: no function of the storage layer throws or rejects to its caller: a
\* failure of localStorage or of the media store ends inside the layer.
C16_FailuresStayInside ==
    \A f \in outcome : f.op \notin StorageLayer

\* The step is the write of the other instance's read-modify-write.
OtherWriteStep == other.pc = "read" /\ other'.pc = "idle"

\* C17: when the other instance's write succeeds, the stored Project
\* collection is the collection it read with its one operation applied:
\* every record but the operation's target is the record it read, in the order
\* it read, whatever this instance wrote between that read and this write.
C17_LastWriteWins ==
    [][(OtherWriteStep /\ WritesSucceed)
         => LET read == getProjects(other.base)
                op == other.op
            IN  /\ OthersUntouched(read, projectsNext, {op.id})
                /\ op.id \in IdsOf(projectsNext)
                /\ LET a == RecordOf(projectsNext, op.id)
                   IN  CASE op.kind = "update" ->
                              /\ a.rev = op.arg
                              /\ a.lastAccessedAt = now
                              /\ Get(a, "groupId") = Get(RecordOf(read, op.id), "groupId")
                         [] op.kind = "move" ->
                              /\ Get(a, "groupId") = op.arg
                              /\ a.rev = RecordOf(read, op.id).rev
                         [] op.kind = "create" ->
                              /\ Get(a, "groupId") = op.arg
                              /\ a.rev = 0]_vars

\* Both instances read, this one wrote, then the other one wrote: the stored
\* collection differs from what this instance had written.
C17_Witness ==
    /\ last = "overwrote"
    /\ other.pc = "idle"
    /\ projectsNow # << >>

\* The two records differ at most in groupId.
SameButGroup(b, a) ==
    /\ DOMAIN a \ {"groupId"} = DOMAIN b \ {"groupId"}
    /\ \A k \in DOMAIN a \ {"groupId"} : a[k] = b[k]

\* C18: in one instance every step that changes the Project collection is one
\* operation applied to the collection as stored before the step: it adds,
\* removes or replaces the record of one id and leaves the others as they
\* were, or (deleteGroup) changes nothing but groupIds; and the step in which
\* a binary-store operation settles writes nothing to localStorage.  This
\* holds also while a put or delete is in flight.
C18_OneOperationPerWrite ==
    [][/\ projectsNext # projectsNow
          => \/ \E id \in ProjectIds : OthersUntouched(projectsNow, projectsNext, {id})
             \/ /\ last' \in {"deleteGroup", "reassigned"}
                /\ Len(projectsNext) = Len(projectsNow)
                /\ \A i \in DOMAIN projectsNow :
                       SameButGroup(projectsNow[i], projectsNext[i])
       /\ (inflight # << >> /\ inflight' = Tail(inflight))
          => localStorage' = localStorage]_vars

\* The sync effect saved a project while the put or delete of a stored
\* project's blob was in flight, and both records are in the collection.
C18_Witness ==
    /\ last = "updateProject"
    /\ outcome = {}
    /\ inflight # << >>
    /\ Head(inflight).op \in {"put", "delete"}
    /\ Head(inflight).id \in IdsOf(projectsNow)
    /\ Len(projectsNow) = 2
    /\ \E i \in DOMAIN projectsNow : projectsNow[i].rev = 1

\* C19: updateProjectInStorage(p) for a stored id, its write succeeding,
\* leaves the collection with the same ids in the same places, the record of
\* one id stamped lastAccessedAt = Date.now() and every other record as it
\* was; and no step lowers the lastAccessedAt of a stored project.
C19_UpdateStampsOneRecord ==
    [][/\ (last' = "updateProject" /\ WritesSucceed)
          => /\ Len(projectsNext) = Len(projectsNow)
             /\ \E i \in DOMAIN projectsNow :
                  /\ projectsNext[i].id = projectsNow[i].id
                  /\ projectsNext[i].lastAccessedAt = now
                  /\ \A j \in DOMAIN projectsNow \ {i} : projectsNext[j] = projectsNow[j]
       /\ \A id \in IdsOf(projectsNow) \cap IdsOf(projectsNext) :
             RecordOf(projectsNext, id).lastAccessedAt
                >= RecordOf(projectsNow, id).lastAccessedAt]_vars

\* A project saved by the player after time has passed, next to a record that
\* still has its earlier stamp.
C19_Witness ==
    /\ last = "updateProject"
    /\ outcome = {}
    /\ now = 1
    /\ Len(projectsNow) = 2
    /\ \E i, j \in DOMAIN projectsNow :
          /\ projectsNow[i].lastAccessedAt = now
          /\ projectsNow[i].rev = 1
          /\ projectsNow[j].lastAccessedAt < now

\* Equal as collections: the same length and, place by place, the same value
\* of every property, a missing property counting as undefined.
SameCollection(a, b) ==
    /\ Len(a) = Len(b)
    /\ \A i \in DOMAIN a :
          \A k \in DOMAIN a[i] \cup DOMAIN b[i] : Get(a[i], k) = Get(b[i], k)

\* C20: a Project or Group collection that was saved (the write succeeding)
\* and then loaded comes back equal: the same records in the same order with
\* the same values, and a groupId that was undefined or missing is missing.
C20_SaveLoadRoundTrip ==
    memory.phase = "loaded"
      => /\ SameCollection(memory.loaded, memory.coll)
         /\ \A i \in DOMAIN memory.loaded :
               \A k \in DOMAIN memory.loaded[i] : memory.loaded[i][k] >= 0

\* A collection of two projects, one with a groupId and one whose groupId was
\* explicitly undefined, was saved and loaded.
C20_Witness ==
    /\ memory.phase = "loaded"
    /\ memory.key = PROJECT_KEY
    /\ Len(memory.coll) = 2
    /\ \E i, j \in DOMAIN memory.coll :
          /\ "groupId" \in DOMAIN memory.coll[i] /\ memory.coll[i].groupId = Undefined
          /\ "groupId" \notin DOMAIN memory.loaded[i]
          /\ Get(memory.loaded[j], "groupId") \in GroupIds

----------------------------------------------------------------------------
(* The player's media source *)

\* getMediaFromDB settles, the store having answered the request for a
\* project id that has no entry.
GetAnswersMiss ==
    /\ inflight # << >>
    /\ Head(inflight).op = "get"
    /\ inflight' = Tail(inflight)
    /\ last' = "got"
    /\ Head(inflight).id \notin mediaDB

\* C21: when the media store answers getMediaFromDB for a project id without
\* entry, no failure is delivered to anyone, the player's media source stays as
\* it was (null, the state that offers to attach a file, when it was null),
\* and the stored collections are unchanged.
C21_MissIsSoft ==
    [][GetAnswersMiss
         => /\ outcome' = {}
            /\ mediaSrc' = mediaSrc
            /\ localStorage' = localStorage]_vars

\* The store answered a get for a project that is in the collection and has
\* no blob, while another project has one: the player has no media source.
C21_Witness ==
    /\ last = "got"
    /\ mediaSrc = NoSrc
    /\ outcome = {}
    /\ mediaDB # {}
    /\ \E id \in IdsOf(projectsNow) : id \notin mediaDB

----------------------------------------------------------------------------
(* Import *)

\* The store holds what the last import made.
StoreIsImport == imported.done = "replaced"

\* A segment with its end after its start.
Positive(seg) == seg.endTime > seg.startTime

\* C22: after an import by any path, every segment of the store has
\* endTime > startTime.
C22_ImportKeepsEndAfterStart ==
    StoreIsImport => \A i \in DOMAIN sentences : Positive(sentences[i])

\* C23: every segment of the Segment Store has endTime > startTime, whatever
\* inline edits of the active segment's times were made.
C23_StoreKeepsEndAfterStart ==
    \A i \in DOMAIN sentences : sentences[i].startTime < sentences[i].endTime

\* The non-blank lines of the text that was imported, by position.
LinesRead == {k \in DOMAIN imported.body : imported.body[k].kind # "blank"}

\* The i-th non-blank line.
LineRead(i) ==
    imported.body[CHOOSE k \in LinesRead : Cardinality({j \in LinesRead : j < k}) = i - 1]

\* The store holds the result of a plain-text import.
StoreIsTextImport == StoreIsImport /\ ~imported.isSrt

\* 0.1 second for each character, not below 2 seconds and not above 10.
Clamped(len) ==
    IF len * 100 < 2000 THEN 2000 ELSE IF len * 100 > 10000 THEN 10000 ELSE len * 100

Yielded == NewSentences(imported.body, imported.isSrt, << >>)

\* C25: an import that yields no segment is reported to the user.
C25_EmptyImportReported ==
    (imported.path # "none" /\ Yielded = << >>) => imported.alerted

\* C26: after a plain-text import the segments are in ascending order of
\* startTime and do not overlap.
C26_TextImportIsOrdered ==
    StoreIsTextImport
      => \A i \in 1..(Len(sentences) - 1) :
            /\ sentences[i].startTime <= sentences[i + 1].startTime
            /\ sentences[i].endTime <= sentences[i + 1].startTime

\* The step is an import of plain text that replaces the store.
TextImportStep ==
    /\ imported'.n = imported.n + 1
    /\ imported'.done = "replaced"
    /\ ~imported'.isSrt

\* C28: a plain-text import leaves in the store exactly one segment for each
\* non-blank line, in the order of the lines, and none of the segments that
\* were there before.
C28_ImportReplacesStore ==
    [][TextImportStep
         => /\ Len(sentences') = Cardinality(LinesRead')
            /\ \A i \in DOMAIN sentences' : sentences'[i].text = LineRead(i)'.text
            /\ \A i \in DOMAIN sentences', j \in DOMAIN sentences :
                  /\ sentences'[i] # sentences[j]
                  /\ sentences'[i].id # sentences[j].id]_vars

\* A file of three lines with a blank one in the middle replaced a store of
\* two segments by two others.
C28_Witness ==
    /\ StoreIsTextImport
    /\ Len(imported.body) = 3
    /\ imported.body[2].kind = "blank"
    /\ Len(sentences) = 2
    /\ sentences[1].text = imported.body[1].text
    /\ sentences[2].text = imported.body[3].text
    /\ sentences[1].text # sentences[2].text
    /\ sentences[1].id > IdBase

----------------------------------------------------------------------------
(* Session *)

\* The stored record of the project of the session.
Stored == RecordOf(getProjects(localStorage), project.id)

\* The effects of the last render have run and the last sync saved the project.
Synced == ~SyncPending /\ syncDeps.saved

\* The place of the active segment in the stored sentences, counted from 0;
\* -1 when no segment is active.
StoredPlaceOfActive ==
    IF activeSentence.id = NoSentence THEN -1
    ELSE (CHOOSE k \in DOMAIN Stored.sentences :
              /\ Stored.sentences[k] = activeSentence
              /\ \A j \in 1..(k - 1) : Stored.sentences[j].id # activeSentence.id) - 1

\* C27: once the sync effect has run and saved, the stored project holds the
\* segments of the store and, as lastActiveIndex, the place of the active
\* segment among them (-1 when none is active); and opening the project again
\* from such a state gives the same segments with the same segment active (or
\* none).
C27_SessionSurvivesReload ==
    [][/\ (Synced => /\ Stored.sentences = sentences
                     /\ activeSentence.id # NoSentence
                          => \E k \in DOMAIN Stored.sentences :
                                Stored.sentences[k] = activeSentence
                     /\ Stored.lastActiveIndex = StoredPlaceOfActive)'
       /\ (Synced /\ last' = "reopen")
            => /\ sentences' = sentences
               /\ activeSentence' = activeSentence]_vars

\* The project was opened again after a file was imported, one of the new
\* segments other than the first was selected and the position moved on: that
\* segment is active again.
C27_Witness ==
    /\ last = "reopen"
    /\ imported.done = "replaced"
    /\ activeSentence.id # NoSentence
    /\ activeSentence = sentences[2]
    /\ currentTime > 0

----------------------------------------------------------------------------
(* Re-selection and pending timers *)

\* C29: selecting the segment that is already active leaves loopsCompleted = 0
\* and no delay awaited, with the transport at the segment's start and playing.
C29_ReselectionResetsEngine ==
    [][last' = "reselect"
         => /\ currentLoop' = 0
            /\ ~isDelaying'
            /\ media'.currentTime = activeSentence.startTime
            /\ ~media'.paused]_vars

\* C30: at most one loop-delay timer is pending.
C30_OneTimerPending == Len(timers) <= 1

----------------------------------------------------------------------------
(* The play/pause control and the loop-delay timer *)

\* The play/pause control is pressed while the page shows "playing": the
\* handler calls pause() on the transport.
UserPauses == togglePlay /\ isPlaying

\* A pending loop-delay callback can run now and leave the transport playing.
TimerWouldResume == ENABLED (TimerFire /\ ~media'.paused)

\* C31: after the user pauses with the play/pause control, no step that is not
\* a user action resumes the transport; in particular, right after a pause
\* issued while the engine is delaying, the loop-delay timer cannot fire and
\* leave the transport playing.
C31_UserPauseHolds ==
    [][UserPauses => (media.paused /\ ~TimerWouldResume)']_vars

\* C32: between steps the player page's isPlaying flag equals the transport's
\* playing state, also after the engine paused the transport itself (loop
\* delay, terminal stop, no active segment).
C32_FlagMatchesTransport == isPlaying = ~media.paused

\* C33: loopsCompleted is never negative, and while the loop budget is a finite
\* N that was not changed since the active segment was selected (and the user
\* did nothing else since), loopsCompleted is at most N - 1.
C33_LoopCountWithinBudget ==
    /\ currentLoop >= 0
    /\ (HasActive /\ clean /\ settings.loopCountOption # -1)
         => currentLoop <= settings.loopCountOption - 1

----------------------------------------------------------------------------
(* The loop delay ends *)

\* The browser runs every scheduled timeout: a pending callback is not
\* postponed forever.
TimersFire == WF_vars(TimerFire)

SpecLive == Init /\ [][Next]_vars /\ TimersFire

\* C34: whenever the engine is waiting for the loop delay, it eventually stops
\* waiting (the timer fires or a segment is selected), given that timers fire.
C34_DelayEnds == isDelaying ~> ~isDelaying

C34_Witness ==
    /\ last = "timer" /\ ~isDelaying /\ ~media.paused /\ currentLoop > 0

----------------------------------------------------------------------------
(* Attaching media in the player.  The upload form is shown while mediaSrc  *)
(* is null; MediaPlayer is mounted once there is a source.                  *)

\* mediaType
Video == 1
Audio == 2

\* mediaName: the name of the uploaded file, or 'Remote Stream'
FileName == 1
RemoteStream == 2

\* { ...project, mediaType, mediaName, mediaUrl, currentTime: 0 }: the
\* currentTime of the prop is read at the mount only and left out here.
WithMedia(p, type, name, url) ==
    With(With(With(p, "mediaType", type), "mediaName", name), "mediaUrl", url)

\* PlayerPage.handleMediaUpload up to its await: setMediaSrc(blob url),
\* onUpdateProject(newProjectState) (App: setCurrentProject), setCurrentTime(0),
\* then saveMediaToDB(project.id, file) starts.
PlayerMediaUpload ==
    /\ mediaSrc = NoSrc
    /\ Len(inflight) < MaxInflight
    /\ \E type \in {Video, Audio} :
        currentProject' = WithMedia(project, type, FileName, Undefined)
    /\ mediaSrc' = BlobUrl
    /\ currentTime' = 0
    /\ inflight' = Append(inflight, [op |-> "put", id |-> project.id])
    /\ outcome' = {}
    /\ last' = "attach"
    /\ UNCHANGED <<sentences, currentSentenceId, settings, isPlaying, currentLoop,
                   isDelaying, media, timers, clean, crossings, edits, imported,
                   localStorage, mediaDB, now, other, memory, syncDeps>>

\* PlayerPage.handleUrlSubmit with a non-blank address: setMediaSrc(urlInput),
\* onUpdateProject(newProjectState), setCurrentTime(0); the loadMedia effect
\* then runs for the new project.mediaUrl and sets the same source.
PlayerUrlSubmit ==
    /\ mediaSrc = NoSrc
    /\ currentProject' = WithMedia(project, Video, RemoteStream, RemoteUrl)
    /\ mediaSrc' = RemoteUrl
    /\ currentTime' = 0
    /\ outcome' = {}
    /\ last' = "attach"
    /\ UNCHANGED <<sentences, currentSentenceId, settings, isPlaying, currentLoop,
                   isDelaying, media, timers, clean, crossings, edits, imported,
                   localStorage, mediaDB, inflight, now, other, memory, syncDeps>>

\* handleSentenceClick while no MediaPlayer is mounted: playerRef.current is
\* null, so seek and play do nothing; the id and the flag are set.
SelectWithoutPlayer ==
    /\ mediaSrc = NoSrc
    /\ \E i \in 1..Len(sentences) : currentSentenceId' = sentences[i].id
    /\ isPlaying' = TRUE
    /\ last' = "select"
    /\ UNCHANGED <<sentences, settings, currentTime, currentLoop, isDelaying, media,
                   timers, clean, crossings, edits, imported, storageVars>>

\* The player just opened on a stored project without media.
InitAttach == InitSession

\* A handler runs when the effects of the last render have run; the media
\* element's events need a mounted MediaPlayer.
NextAttach ==
    \/ PersistenceSync
    \/ Reopen
    \/ ~SyncPending /\ PlayerMediaUpload
    \/ ~SyncPending /\ PlayerUrlSubmit
    \/ saveMediaSettles
    \/ getMediaSettles
    \/ ~SyncPending /\ SelectWithoutPlayer
    \/ ~SyncPending /\ mediaSrc # NoSrc /\ handleSentenceClick
    \/ ~SyncPending /\ mediaSrc # NoSrc /\ MediaAdvance
    \/ ~SyncPending /\ mediaSrc # NoSrc /\ handleTimeUpdate

SpecAttach == InitAttach /\ [][NextAttach]_vars

----------------------------------------------------------------------------
(* Attached media and the stored record *)

\* The stored record of the project carries the media fields of the project
\* the player shows.
MediaStored == \A k \in MediaKeys : Get(Stored, k) = Get(project, k)

\* The effects of the last render have run, the last write of the sync effect
\* was saved and the record exists: the player can be left.
AtRest ==
    /\ ~SyncPending
    /\ syncDeps.saved
    /\ project.id \in IdsOf(getProjects(localStorage))

\* C35: once media is attached in the player, the stored record of the project
\* carries its mediaType, mediaName and mediaUrl whenever the player can be
\* left, also when nothing else changed after the attachment.
C35_AttachedMediaIsStored == AtRest => MediaStored

----------------------------------------------------------------------------
(* Projects and their groups *)

\* The group of a stored project is absent or a stored group.
GroupIsStored(p) ==
    Get(p, "groupId") \in {Undefined} \cup IdsOf(getGroups(localStorage))

\* C36: whatever was created, moved, deleted or synced, and whichever writes of
\* the Project collection failed, no stored project points at a group that is
\* not in the stored Group collection.
C36_NoDanglingGroup ==
    \A i \in DOMAIN getProjects(localStorage) : GroupIsStored(getProjects(localStorage)[i])

----------------------------------------------------------------------------
(* A sync of a project that is not stored *)

\* The projects the player may sync that have no record in the stored collection.
MissingProjects ==
    {p \in PlayerProjects(localStorage) :
        FindIndex(getProjects(localStorage), p.id) = -1}

\* C37: updateProject of a project whose id has no record in the Project
\* collection (for example a deleted one) leaves the stored collection as it
\* is, whether or not a write would succeed: it never adds the record.
C37_UpdateNeverAdds ==
    \A p \in MissingProjects, ok \in BOOLEAN :
        updateProjectInStorage(localStorage, p, now, ok) = localStorage

\* A project was just deleted while another one is stored.
C37_Witness ==
    /\ inflight # << >>
    /\ Head(inflight).op = "delete"
    /\ Head(inflight).id \notin IdsOf(getProjects(localStorage))
    /\ getProjects(localStorage) # << >>
    /\ \E p \in MissingProjects : p.id = Head(inflight).id

----------------------------------------------------------------------------
(* The active segment after an import *)

\* The active segment is a segment of the store.
ActiveIsMember == \E k \in DOMAIN sentences : sentences[k] = activeSentence

\* currentSentenceId is the id of a segment that an import replaced.
ReplacedSelection == currentSentenceId # NoSentence /\ ~HasActive

\* C38: the active segment is none or a segment of the store; an import that
\* replaces the store while a segment is active leaves no segment active; the
\* sync that follows stores lastActiveIndex -1; and the next position update
\* pauses the transport.
C38_ImportClearsActive ==
    [][/\ (HasActive => ActiveIsMember)'
       /\ (HasActive /\ last' = "import" /\ imported'.done = "replaced")
            => (ReplacedSelection /\ ~ActiveIsMember)'
       /\ (ReplacedSelection /\ last' = "sync" /\ syncDeps'.saved)
            => (Stored.lastActiveIndex = -1)'
       /\ (ReplacedSelection /\ last' \in TimeUpdateTags)
            => (last' = "noSentence" /\ media'.paused /\ ~HasActive')]_vars

\* A file was imported while a segment was active and the transport was
\* playing; the sync stored -1 and the next position update paused.
C38_Witness ==
    /\ last = "noSentence"
    /\ imported.done = "replaced" /\ imported.n > 0
    /\ ReplacedSelection
    /\ isPlaying
    /\ Synced /\ Stored.lastActiveIndex = -1 /\ Stored.sentences = sentences
    /\ media.paused

----------------------------------------------------------------------------
(* Next / Previous *)

\* 0-based place of the active segment in the store, -1 when none is active.
ActiveIndex == FindIndex(sentences, currentSentenceId)

\* The step leaves the active segment, loopsCompleted and the transport alone.
Unmoved == UNCHANGED <<currentSentenceId, currentLoop, media>>

\* The step selects segment s: it is active and the transport plays from its
\* start.
Selects(s) ==
    /\ currentSentenceId' = s.id
    /\ media'.currentTime = s.startTime
    /\ ~media'.paused

\* C39: Next selects the segment after the active one in array order and
\* Previous the one before it; Next on the last segment, Previous on the first
\* segment or with no active segment, and Next on an empty store change
\* nothing; Next with no active segment selects the first segment of a
\* non-empty store.
C39_NavigationFollowsArrayOrder ==
    [][/\ (handleNext /\ ActiveIndex >= 0 /\ ActiveIndex < Len(sentences) - 1)
            => Selects(sentences[ActiveIndex + 2])
       /\ (handleNext /\ ActiveIndex >= 0 /\ ActiveIndex = Len(sentences) - 1)
            => Unmoved
       /\ (handleNext /\ ActiveIndex = -1 /\ sentences # << >>)
            => Selects(sentences[1])
       /\ (handleNext /\ sentences = << >>)
            => Unmoved
       /\ (handlePrev /\ ActiveIndex > 0)
            => Selects(sentences[ActiveIndex])
       /\ (handlePrev /\ ActiveIndex <= 0)
            => Unmoved]_vars

\* Navigation has selected the last of several segments: one more Next
\* changes nothing.
C39_Witness ==
    /\ last = "select"
    /\ Len(sentences) > 1
    /\ ActiveIndex = Len(sentences) - 1
    /\ ~media.paused
    /\ media.currentTime = activeSentence.startTime
    /\ ENABLED (handleNext /\ Unmoved)

====
